---- MODULE Spec2Model ----
(***************************************************************************)
(* A model of the gomoku platform: the board primitives and the game       *)
(* driver play_game of src/gomoku/gomoku.py, and the match engine of       *)
(* src/match.py.                                                           *)
(***************************************************************************)
EXTENDS Integers, Sequences, FiniteSets, TLC

(***************************************************************************)
(* Bounds of the model.                                                    *)
(***************************************************************************)
\* board_size handed to play_game / MatchEngine (the code's default is 15)
BoardSize == 5
\* a legal answer is one of the first MaxChoice empty cells (row-major) ...
MaxChoice == 2
\* ... and at most MaxSkips legal answers of a game are not the first one
MaxSkips == 2
\* an agent writes at most MaxWrites cells into the board it was handed
MaxWrites == 1
\* run_match is called with games in 0 .. MaxGames ...
MaxGames == 4
\* ... and max_workers in 0 .. MaxWorkers
MaxWorkers == 2
\* Search.make_move is called in the opening with boards of up to
\* MaxSearchSize rows ...
MaxSearchSize == 4
\* ... that hold up to MaxStones stones
MaxStones == 3
\* the evaluation functions of the search are called on boards of EvalSize rows
EvalSize == 6
\* ... and the head of _minimax and _alpha_beta with a depth of up to
\* MaxNodeDepth
MaxNodeDepth == 1
\* Search.make_move is called after the opening on boards of up to
\* MaxLayerSize rows ...
MaxLayerSize == 5
\* ... that hold up to MaxLayerStones stones,
MaxLayerStones == 8
\* by a Search built with alpha_beta_depth = minimax_depth up to MaxDepth
MaxDepth == 2
\* Search._alpha_beta is called on boards of up to MaxPruneSize rows with a
\* depth of up to MaxPruneDepth
MaxPruneSize == 4
MaxPruneDepth == 2
\* Search.make_move as a whole is called by a Search built with
\* alpha_beta_depth = minimax_depth up to MaxCascadeDepth
MaxCascadeDepth == 1

(***************************************************************************)
(* Program constants.                                                      *)
(***************************************************************************)
\* check_win: "if count >= 5"
WinCount == 5
\* winner = None
None == -1

Players == {1, 2}

(***************************************************************************)
(* Board primitives (src/gomoku/gomoku.py).                                *)
(***************************************************************************)
create_board(board_size) ==
    [r \in 0 .. (board_size - 1) |-> [c \in 0 .. (board_size - 1) |-> 0]]

len(board) == Cardinality(DOMAIN board)

is_valid_move(board, row, col) ==
    /\ 0 <= row /\ row < len(board)
    /\ 0 <= col /\ col < len(board)
    /\ board[row][col] = 0

\* a mutation of make_move: the cell is written whenever it is on the grid
make_move_unchecked(board, row, col, player) ==
    IF ~(0 <= row /\ row < len(board) /\ 0 <= col /\ col < len(board))
    THEN [ok |-> FALSE, board |-> board]
    ELSE [ok |-> TRUE, board |-> [board EXCEPT ![row][col] = player]]
\* make_move mutates the array in place and returns a flag; the model returns
\* both the flag and the array after the call.
make_move(board, row, col, player) ==
    IF ~is_valid_move(board, row, col)
    THEN [ok |-> FALSE, board |-> board]
    ELSE [ok |-> TRUE, board |-> [board EXCEPT ![row][col] = player]]

is_board_full(board) ==
    \A r \in DOMAIN board : \A c \in DOMAIN board[r] : board[r][c] # 0

directions == << <<0, 1>>, <<1, 0>>, <<1, 1>>, <<1, -1>> >>

\* one of the two while loops of check_win: the stones of player met from
\* (x, y) on, stepping by (dx, dy), until the edge or another value
RECURSIVE CountRun(_, _, _, _, _, _)
CountRun(board, x, y, dx, dy, player) ==
    IF /\ 0 <= x /\ x < len(board)
       /\ 0 <= y /\ y < len(board)
       /\ board[x][y] = player
    THEN 1 + CountRun(board, x + dx, y + dy, dx, dy, player)
    ELSE 0

\* a mutation of LineCount: the second while loop is missing
LineCountForward(board, row, col, d) ==
    1 + CountRun(board, row + d[1], col + d[2], d[1], d[2], board[row][col])
\* the count that check_win reaches for one direction: the cell itself and
\* the two while loops
LineCount(board, row, col, d) ==
    1 + CountRun(board, row + d[1], col + d[2], d[1], d[2], board[row][col])
      + CountRun(board, row - d[1], col - d[2], -d[1], -d[2], board[row][col])

check_win(board, row, col) ==
    \E i \in DOMAIN directions :
        LineCount(board, row, col, directions[i]) >= WinCount

(***************************************************************************)
(* The game driver play_game (src/gomoku/gomoku.py).                       *)
(***************************************************************************)
VARIABLES
    board,           \* the driver's board
    current_player,  \* the acting player
    game_over,       \* the loop flag
    winner,          \* None until decided
    move_count,      \* turns begun
    pc,              \* where play_game is: loop, calling, exit_with, returned, raised
    is_human,        \* is_human[p]: agent p has the attribute create_gui
    future,          \* the decision call of this turn: in flight, or ended with its outcome
    overdue,         \* PLAYER_TIME_LIMIT has passed since this turn's call began
    handed,          \* the array the decision call was given, and whether it is the driver's own
    writes,          \* cells the agent wrote into the array it was given, this call
    skips            \* legal answers so far that were not the first empty cell

gameVars == <<board, current_player, game_over, winner, move_count, pc,
              is_human, future, overdue, handed, writes, skips>>

\* ---- what an agent's decision call can produce ----
NoAnswer == [kind |-> "pending", row |-> 0, col |-> 0]
Raises == [kind |-> "exception", row |-> 0, col |-> 0]
ReturnsNone == [kind |-> "none", row |-> 0, col |-> 0]
\* a value that is not a pair of integers: wrong arity, non-integer entries
NotAPair == [kind |-> "bad", row |-> 0, col |-> 0]
Cell(r, c) == [kind |-> "cell", row |-> r, col |-> c]

AllCells(b) == {<<r, c>> : r \in DOMAIN b, c \in DOMAIN b}
EmptyCells(b) == {x \in AllCells(b) : b[x[1]][x[2]] = 0}
OccupiedCells(b) == AllCells(b) \ EmptyCells(b)
\* the first n cells in row-major order, from the k-th on, that are empty
\* (empty = TRUE) or occupied (empty = FALSE)
RECURSIVE FirstCells(_, _, _, _)
FirstCells(b, k, n, empty) ==
    IF n = 0 \/ k >= len(b) * len(b)
    THEN {}
    ELSE LET r == k \div len(b)
             c == k % len(b)
         IN  IF (b[r][c] = 0) = empty
             THEN {<<r, c>>} \cup FirstCells(b, k + 1, n - 1, empty)
             ELSE FirstCells(b, k + 1, n, empty)
OutOfBounds(b) == {<<-1, 0>>, <<0, len(b)>>}

\* the legal cells an agent may answer with, given the skips used so far
LegalChoices(b, used) ==
    FirstCells(b, 0, IF used < MaxSkips THEN MaxChoice ELSE 1, TRUE)
IllegalChoices(b) == FirstCells(b, 0, MaxChoice, FALSE) \cup OutOfBounds(b)
IsSkip(b, ans) ==
    /\ ans.kind = "cell"
    /\ is_valid_move(b, ans.row, ans.col)
    /\ <<ans.row, ans.col>> \notin FirstCells(b, 0, 1, TRUE)

Answers(b, used) ==
    {Raises, ReturnsNone, NotAPair}
        \cup {Cell(x[1], x[2]) : x \in LegalChoices(b, used) \cup IllegalChoices(b)}

\* ---- the array handed to the decision call ----
NoBoard == [alias |-> FALSE, grid |-> << >>]
\* a mutation of CopyOf: the driver's own array is handed over
CopyOfAliased(b) == [alias |-> TRUE, grid |-> b]
\* board.copy(): a new array with the same contents
CopyOf(b) == [alias |-> FALSE, grid |-> b]

IdleFuture == [state |-> "idle", answer |-> NoAnswer]
RunningFuture == [state |-> "running", answer |-> NoAnswer]

\* ---- the rest of a turn once the decision call has produced its outcome ----
\* a mutation of Forfeit: the offender is named the winner
ForfeitToOffender(b, player, over) ==
    [board |-> b, current_player |-> player, game_over |-> over,
     winner |-> player, pc |-> "returned"]
\* "winner = 3 - current_player ... break": the handlers of a raised fault set
\* game_over as well (over), the checks of the returned move do not
Forfeit(b, player, over) ==
    [board |-> b, current_player |-> player, game_over |-> over,
     winner |-> 3 - player, pc |-> "returned"]

\* a mutation of AfterLegalMove: the turn does not pass to the other player
AfterLegalMoveSameTurn(b, player, row, col) ==
    LET nb == make_move(b, row, col, player).board IN
    IF check_win(nb, row, col)
    THEN [board |-> nb, current_player |-> player, game_over |-> TRUE,
          winner |-> player, pc |-> "returned"]
    ELSE IF is_board_full(nb)
    THEN [board |-> nb, current_player |-> player, game_over |-> TRUE,
          winner |-> 0, pc |-> "returned"]
    ELSE [board |-> nb, current_player |-> player, game_over |-> FALSE,
          winner |-> None, pc |-> "loop"]
\* a mutation of AfterLegalMove: the full board is looked at before the win
AfterLegalMoveFullFirst(b, player, row, col) ==
    LET nb == make_move(b, row, col, player).board IN
    IF is_board_full(nb)
    THEN [board |-> nb, current_player |-> player, game_over |-> TRUE,
          winner |-> 0, pc |-> "returned"]
    ELSE IF check_win(nb, row, col)
    THEN [board |-> nb, current_player |-> player, game_over |-> TRUE,
          winner |-> player, pc |-> "returned"]
    ELSE [board |-> nb, current_player |-> 3 - player, game_over |-> FALSE,
          winner |-> None, pc |-> "loop"]
\* lines 309-346: make_move, then check_win / is_board_full / the turn passes
AfterLegalMove(b, player, row, col) ==
    LET nb == make_move(b, row, col, player).board IN
    IF check_win(nb, row, col)
    THEN [board |-> nb, current_player |-> player, game_over |-> TRUE,
          winner |-> player, pc |-> "returned"]
    ELSE IF is_board_full(nb)
    THEN [board |-> nb, current_player |-> player, game_over |-> TRUE,
          winner |-> 0, pc |-> "returned"]
    ELSE [board |-> nb, current_player |-> 3 - player, game_over |-> FALSE,
          winner |-> None, pc |-> "loop"]

\* lines 185-204 / 243-262 for a raised fault, 264-346 for a returned value
AfterCall(b, player, ans) ==
    IF ans.kind = "exception"
    THEN Forfeit(b, player, TRUE)
    ELSE IF ans.kind = "none"
    THEN Forfeit(b, player, FALSE)
    ELSE IF ans.kind = "bad"
    THEN \* "row, col = move" raises, outside every try block
         [board |-> b, current_player |-> player, game_over |-> FALSE,
          winner |-> None, pc |-> "raised"]
    ELSE IF ~is_valid_move(b, ans.row, ans.col)
    THEN Forfeit(b, player, FALSE)
    ELSE AfterLegalMove(b, player, ans.row, ans.col)

\* the FutureTimeoutError handler (lines 217-242)
OnTimeout(b, player) == Forfeit(b, player, TRUE)

GameInit ==
    /\ board = create_board(BoardSize)
    /\ current_player = 1
    /\ game_over = FALSE
    /\ winner = None
    /\ move_count = 0
    /\ pc = "loop"
    /\ is_human \in {h \in [Players -> BOOLEAN] : ~(h[1] /\ h[2])}
    /\ future = IdleFuture
    /\ overdue = FALSE
    /\ handed = NoBoard
    /\ writes = 0
    /\ skips = 0

\* top of the loop up to the decision call: executor.submit(make_move, board.copy())
\* or, for a human player, the direct call make_move(board.copy())
BeginTurn ==
    /\ pc = "loop"
    /\ ~game_over
    /\ move_count' = move_count + 1
    /\ handed' = CopyOf(board)
    /\ future' = RunningFuture
    /\ overdue' = FALSE
    /\ writes' = 0
    /\ pc' = "calling"
    /\ UNCHANGED <<board, current_player, game_over, winner, is_human, skips>>

\* the agent's code assigns into the array it was given
AgentWrite ==
    /\ future.state = "running"
    /\ writes < MaxWrites
    /\ \E v \in 0 .. 2 :
          /\ handed.grid[0][0] # v
          /\ handed' = [handed EXCEPT !.grid[0][0] = v]
          /\ board' = IF handed.alias THEN [board EXCEPT ![0][0] = v] ELSE board
    /\ writes' = writes + 1
    /\ UNCHANGED <<current_player, game_over, winner, move_count, pc,
                   is_human, future, overdue, skips>>

\* the decision call ends in time for the driver to take its outcome:
\* future.result() (or the direct call) returns or raises, and the driver runs
\* the rest of the turn.  A human player's call is not timed at all.
Resume ==
    /\ pc = "calling"
    /\ future.state = "running"
    /\ overdue => is_human[current_player]
    /\ \E ans \in Answers(board, skips) :
          LET t == AfterCall(board, current_player, ans) IN
             /\ future' = [state |-> "done", answer |-> ans]
             /\ skips' = IF IsSkip(board, ans) THEN skips + 1 ELSE skips
             /\ board' = t.board
             /\ current_player' = t.current_player
             /\ game_over' = t.game_over
             /\ winner' = t.winner
             /\ pc' = t.pc
    /\ handed' = NoBoard
    /\ writes' = 0
    /\ UNCHANGED <<move_count, is_human, overdue>>

\* PLAYER_TIME_LIMIT passes with the call still running.  On the executor,
\* future.result(timeout=PLAYER_TIME_LIMIT) raises FutureTimeoutError: the
\* handler decides the game and breaks out of the loop, inside the with block.
Deadline ==
    /\ pc = "calling"
    /\ future.state = "running"
    /\ ~overdue
    /\ overdue' = TRUE
    /\ IF is_human[current_player]
       THEN UNCHANGED <<winner, game_over, pc>>
       ELSE /\ winner' = OnTimeout(board, current_player).winner
            /\ game_over' = OnTimeout(board, current_player).game_over
            /\ pc' = "exit_with"
    /\ UNCHANGED <<board, current_player, move_count, is_human, future,
                   handed, writes, skips>>

\* a mutation of LateReturn: the late result is taken as the move of the turn
LateReturnApplied ==
    /\ pc = "exit_with"
    /\ future.state = "running"
    /\ \E ans \in Answers(board, skips) :
          /\ future' = [state |-> "done", answer |-> ans]
          /\ board' = AfterCall(board, current_player, ans).board
          /\ winner' = AfterCall(board, current_player, ans).winner
    /\ handed' = NoBoard
    /\ writes' = 0
    /\ UNCHANGED <<current_player, game_over, move_count, pc,
                   is_human, overdue, skips>>
\* the abandoned call ends after its deadline, with whatever outcome
LateReturn ==
    /\ pc = "exit_with"
    /\ future.state = "running"
    /\ \E ans \in Answers(board, skips) :
          future' = [state |-> "done", answer |-> ans]
    /\ handed' = NoBoard
    /\ writes' = 0
    /\ UNCHANGED <<board, current_player, game_over, winner, move_count, pc,
                   is_human, overdue, skips>>

\* leaving "with ThreadPoolExecutor(...)": __exit__ is shutdown(wait=True),
\* which joins the worker thread that runs the decision call
ExitWith ==
    /\ pc = "exit_with"
    /\ future.state = "done"
    /\ pc' = "returned"
    /\ UNCHANGED <<board, current_player, game_over, winner, move_count,
                   is_human, future, overdue, handed, writes, skips>>

GameNext ==
    \/ BeginTurn
    \/ AgentWrite
    \/ Resume
    \/ Deadline
    \/ LateReturn
    \/ ExitWith

(***************************************************************************)
(* Properties of the game driver.                                          *)
(***************************************************************************)
\* five equal stones in a row, in one of the four directions, in a window
\* that holds (r, c)
FiveThrough(b, r, c) ==
    /\ b[r][c] # 0
    /\ \E d \in {<<0, 1>>, <<1, 0>>, <<1, 1>>, <<1, -1>>}, k \in 0 .. 4 :
          \A j \in 0 .. 4 :
              LET x == r + (j - k) * d[1]
                  y == c + (j - k) * d[2]
              IN  /\ x \in DOMAIN b
                  /\ y \in DOMAIN b
                  /\ b[x][y] = b[r][c]

InBounds(b, r, c) == r \in DOMAIN b /\ c \in DOMAIN b
LegalCell(b, r, c) == InBounds(b, r, c) /\ b[r][c] = 0

\* this step is the driver taking the outcome of the decision call
TakesOutcome == pc = "calling" /\ future.state = "running" /\ future'.state = "done"
\* this step is the FutureTimeoutError handler
TimesOut == pc = "calling" /\ pc' = "exit_with"
\* the outcome taken is a fault, no move, or a cell that is not legal
OutcomeForfeits ==
    \/ future'.answer.kind \in {"exception", "none"}
    \/ /\ future'.answer.kind = "cell"
       /\ ~LegalCell(board, future'.answer.row, future'.answer.col)
\* the game ends on this step, lost by the player who was to act
ForfeitsNow ==
    /\ winner' = 3 - current_player
    /\ pc' \in {"returned", "exit_with"}
    /\ board' = board
    /\ current_player' = current_player
    /\ move_count' = move_count

C2_ReturnsWithoutWaiting == (pc = "exit_with") => ENABLED ExitWith

\* C3: after a legal move is applied exactly one of three things happens, in
\* this order: five in a row through the move ends the game with winner =
\* mover (also on a full board); else a full board ends it with winner = 0;
\* else the other player is to act and the game goes on.  Winner 0 is only
\* ever reported on a full board whose last move made no five in a row.
C3_AfterLegalMove ==
    [][ /\ ( /\ TakesOutcome
             /\ future'.answer.kind = "cell"
             /\ LegalCell(board, future'.answer.row, future'.answer.col) )
           => LET r == future'.answer.row
                  c == future'.answer.col
                  nb == [board EXCEPT ![r][c] = current_player]
              IN  /\ board' = nb
                  /\ IF FiveThrough(nb, r, c)
                     THEN pc' = "returned" /\ winner' = current_player
                     ELSE IF \A x \in AllCells(nb) : nb[x[1]][x[2]] # 0
                     THEN pc' = "returned" /\ winner' = 0
                     ELSE /\ pc' = "loop"
                          /\ winner' = None
                          /\ current_player' = 3 - current_player
        /\ winner' = 0
           => /\ \A x \in AllCells(board') : board'[x[1]][x[2]] # 0
              /\ future'.answer.kind = "cell"
              /\ ~FiveThrough(board', future'.answer.row, future'.answer.col)
      ]_gameVars

\* C3 witness: the move that filled the board made five in a row
C3_Witness ==
    /\ pc = "returned"
    /\ winner = current_player
    /\ \A x \in AllCells(board) : board[x[1]][x[2]] # 0

\* C4: whatever the agent writes into the board it was handed, the driver's
\* board is unchanged by the call; the driver's board changes only when the
\* driver places the acting player's stone on the legal cell that was returned.
C4_AgentCannotTouchBoard ==
    [][ /\ (future.state = "running" /\ handed' # handed /\ future'.state = "running")
           => board' = board
        /\ board' # board
           => /\ TakesOutcome
              /\ future'.answer.kind = "cell"
              /\ LegalCell(board, future'.answer.row, future'.answer.col)
              /\ board' = [board EXCEPT ![future'.answer.row][future'.answer.col]
                                           = current_player]
      ]_gameVars

\* C4 witness: the running call has written into its array, which now differs
\* from the driver's board
C4_Witness ==
    /\ future.state = "running"
    /\ writes > 0
    /\ handed.grid # board

\* C7: whatever the decision call returns, also a value that is not a
\* (row, col) pair, play_game does not raise.
C7_NeverRaises == pc # "raised"

\* C25: a turn that ends in a forfeit leaves the board as it was, and once
\* the deadline of a call has passed (the timeout handler ran) nothing the
\* call does later changes the board or the winner.
C25_ForfeitLeavesBoard ==
    [][/\ (pc = "calling" /\ winner' = 3 - current_player) => board' = board
       /\ pc = "exit_with"
          => /\ board' = board
             /\ winner' = winner
             /\ game_over' = game_over
      ]_gameVars

\* C25 witness: play_game has returned after a timeout, and the late result
\* of the call, a legal cell, is not on the board
C25_Witness ==
    /\ pc = "returned"
    /\ overdue
    /\ winner = 3 - current_player
    /\ future.state = "done"
    /\ future.answer.kind = "cell"
    /\ LegalCell(board, future.answer.row, future.answer.col)

\* the number of stones of player p on the board b
StonesOf(b, p) == Cardinality({x \in AllCells(b) : b[x[1]][x[2]] = p})

\* C26: player 1 moves first, and while the game is in progress the number
\* of stones of player 1 minus the number of stones of player 2 is 0 when
\* player 1 is to act and 1 when player 2 is to act; in every state it is 0 or
\* 1, so no player places two stones in a row.
C26_TurnsAlternate ==
    /\ move_count = 0 => current_player = 1
    /\ StonesOf(board, 1) - StonesOf(board, 2) \in {0, 1}
    /\ pc \in {"loop", "calling"}
       => StonesOf(board, 1) - StonesOf(board, 2)
             = (IF current_player = 1 THEN 0 ELSE 1)

\* C26 witness: player 2 is asked for a move with two stones of player 1 and
\* one of its own on the board
C26_Witness ==
    /\ pc = "calling"
    /\ current_player = 2
    /\ StonesOf(board, 1) = 2
    /\ StonesOf(board, 2) = 1

\* C19: a game in which every decision call ends within the deadline is over
\* after at most N*N turns on the N x N board, and ends with a winner in
\* {0, 1, 2}.
C19_TimelyGameEndsWithWinner ==
    /\ move_count <= BoardSize * BoardSize
    /\ (pc \in {"returned", "raised"} /\ ~overdue) => winner \in {0, 1, 2}

(***************************************************************************)
(* The board primitives called on their own: make_move and check_win with  *)
(* any arguments, on boards that hold any pattern along one line of the    *)
(* grid and one value everywhere else.                                     *)
(***************************************************************************)
VARIABLES
    pboard,   \* the array the primitives are called on
    pline,    \* the cells of the line whose pattern varies
    pcall     \* the last call: its arguments and what it returned

boardVars == <<pboard, pline, pcall>>

NoCall == [op |-> "none", row |-> 0, col |-> 0, player |-> 0, ok |-> FALSE]

\* the cells of the grid on the line through start in direction d
LineCells(n, start, d) ==
    {<<start[1] + k * d[1], start[2] + k * d[2]>> : k \in (1 - n) .. (n - 1)}
        \cap ((0 .. (n - 1)) \X (0 .. (n - 1)))
\* the lines through the centre cell that can hold WinCount stones
Lines(n) ==
    {L \in {LineCells(n, <<n \div 2, n \div 2>>, directions[i]) :
                i \in DOMAIN directions} :
        Cardinality(L) >= WinCount}

BoardInit ==
    /\ pline \in Lines(BoardSize)
    /\ \E bg \in 0 .. 2 : \E pattern \in [pline -> 0 .. 2] :
          pboard = [r \in 0 .. (BoardSize - 1) |->
                       [c \in 0 .. (BoardSize - 1) |->
                           IF <<r, c>> \in pline THEN pattern[<<r, c>>] ELSE bg]]
    /\ pcall = NoCall

\* make_move(board, row, col, player) with a cell of the line or a cell
\* outside the grid
MakeMoveCall ==
    /\ pcall.op # "check_win"
    /\ \E x \in pline \cup OutOfBounds(pboard), p \in Players :
          LET res == make_move(pboard, x[1], x[2], p) IN
             /\ pboard' = res.board
             /\ pcall' = [op |-> "make_move", row |-> x[1], col |-> x[2],
                          player |-> p, ok |-> res.ok]
    /\ UNCHANGED pline

\* check_win(board, row, col) on an occupied cell
CheckWinCall ==
    /\ pcall.op # "check_win"
    /\ \E x \in OccupiedCells(pboard) :
          pcall' = [op |-> "check_win", row |-> x[1], col |-> x[2],
                    player |-> 0, ok |-> check_win(pboard, x[1], x[2])]
    /\ UNCHANGED <<pboard, pline>>

BoardNext ==
    \/ MakeMoveCall
    \/ CheckWinCall

(***************************************************************************)
(* Properties of the board primitives.                                     *)
(***************************************************************************)
\* C5: make_move returns False and leaves the board as it was when the cell
\* is out of bounds or not empty, and otherwise returns True and writes
\* exactly that cell; so over any sequence of calls a cell that holds a stone
\* keeps its value and the set of occupied cells only grows.
C5_MakeMove ==
    [][ pcall'.op = "make_move"
        => LET r == pcall'.row
               c == pcall'.col
           IN  /\ IF LegalCell(pboard, r, c)
                  THEN /\ pcall'.ok
                       /\ pboard'[r][c] = pcall'.player
                       /\ \A x \in AllCells(pboard) :
                             x # <<r, c>> => pboard'[x[1]][x[2]] = pboard[x[1]][x[2]]
                  ELSE ~pcall'.ok /\ pboard' = pboard
               /\ \A x \in AllCells(pboard) :
                     pboard[x[1]][x[2]] # 0 => pboard'[x[1]][x[2]] = pboard[x[1]][x[2]]
               /\ OccupiedCells(pboard) \subseteq OccupiedCells(pboard')
      ]_boardVars

\* C5 witness: a call on an occupied cell of the grid was refused
C5_Witness ==
    /\ pcall.op = "make_move"
    /\ ~pcall.ok
    /\ InBounds(pboard, pcall.row, pcall.col)
    /\ pboard[pcall.row][pcall.col] # pcall.player

\* the offsets k such that every cell from (r, c) to (r, c) + k * d lies on
\* the grid and holds the value of (r, c): the maximal contiguous run through
\* (r, c) in direction d
RunThrough(b, r, c, d) ==
    {k \in (1 - len(b)) .. (len(b) - 1) :
        \A j \in (IF k < 0 THEN k ELSE 0) .. (IF k < 0 THEN 0 ELSE k) :
            /\ InBounds(b, r + j * d[1], c + j * d[2])
            /\ b[r + j * d[1]][c + j * d[2]] = b[r][c]}

\* C6: on an occupied cell (r, c), check_win is true iff in one of the four
\* directions the maximal contiguous run of that player's stones through
\* (r, c) has length >= 5.
C6_CheckWin ==
    pcall.op = "check_win"
    => ( pcall.ok <=>
            \E d \in {<<0, 1>>, <<1, 0>>, <<1, 1>>, <<1, -1>>} :
                Cardinality(RunThrough(pboard, pcall.row, pcall.col, d)) >= 5 )

\* C6 witness: check_win answered True on a cell in the middle of a run
C6_Witness ==
    /\ pcall.op = "check_win"
    /\ pcall.ok
    /\ \E d \in {<<0, 1>>, <<1, 0>>, <<1, 1>>, <<1, -1>>} :
          /\ {-1, 1} \subseteq RunThrough(pboard, pcall.row, pcall.col, d)
          /\ Cardinality(RunThrough(pboard, pcall.row, pcall.col, d)) >= 5

(***************************************************************************)
(* The match engine (src/match.py).                                        *)
(***************************************************************************)
\* ---- agent sources ----
\* What the file at an agent path holds.  "unloadable": load_agent_from_file
\* raises.  The others load, and name what the agent's make_move does on every
\* call: return the first / the last empty cell in row-major order, return the
\* first empty cell in the order that takes every third cell first, return
\* None, return a value that is not a pair, exceed the deadline
\* and return afterwards, never return.
Kinds == {"first", "last", "third", "resign", "bad", "slow", "hang", "unloadable"}

\* the empty cell of b with the least key
PickMin(b, key) ==
    IF EmptyCells(b) = {}
    THEN ReturnsNone
    ELSE LET x == CHOOSE x \in EmptyCells(b) :
                      \A y \in EmptyCells(b) : key[x] <= key[y]
         IN  Cell(x[1], x[2])

\* agent.make_move(board) for an agent of the given kind that returns in time
Policy(kind, b) ==
    LET KeyFirst == [x \in AllCells(b) |-> x[1] * len(b) + x[2]]
        KeyLast == [x \in AllCells(b) |-> 0 - KeyFirst[x]]
        KeyThird == [x \in AllCells(b) |->
                        (KeyFirst[x] % 3) * len(b) * len(b) + KeyFirst[x]]
    IN  CASE kind = "first" -> PickMin(b, KeyFirst)
          [] kind = "last" -> PickMin(b, KeyLast)
          [] kind = "third" -> PickMin(b, KeyThird)
          [] kind = "resign" -> ReturnsNone
          [] kind = "bad" -> NotAPair

\* play_game(agent1, agent2, board_size, silent=True) from the position
\* (b, player) on, for agents that are not human players: how it ends.
\* pc = "blocked": the timeout handler ran, and play_game waits for ever for
\* the call that never returns.
RECURSIVE PlayFrom(_, _, _)
PlayFrom(b, player, kinds) ==
    LET t == IF kinds[player] = "slow"
             THEN OnTimeout(b, player)
             ELSE IF kinds[player] = "hang"
             THEN [OnTimeout(b, player) EXCEPT !.pc = "blocked"]
             ELSE AfterCall(b, player, Policy(kinds[player], b))
    IN  IF t.pc = "loop" THEN PlayFrom(t.board, t.current_player, kinds) ELSE t

\* the games of the loadable kinds on the board of the match, played once
PlayedGames ==
    [ks \in (Kinds \ {"unloadable"}) \X (Kinds \ {"unloadable"}) |->
        PlayFrom(create_board(BoardSize), 1, ks)]

play_game(agent1, agent2, board_size) ==
    IF board_size = BoardSize
    THEN PlayedGames[<<agent1.kind, agent2.kind>>]
    ELSE PlayFrom(create_board(board_size), 1, <<agent1.kind, agent2.kind>>)

\* AgentLoader.load_agent_from_file(file_path, player_id): the instance, when
\* the source loads.  src names the role whose path was loaded.
Loadable(kind) == kind # "unloadable"
load_agent_from_file(src, kind, player_id) ==
    [src |-> src, kind |-> kind, player |-> player_id]

\* a mutation of Seats: the challenger's agent always moves first
SeatsChallengerFirst(agent1, agent2, game_num) == <<agent1, agent2>>
\* the agents handed to play_game as its first and second argument
Seats(agent1, agent2, game_num) ==
    IF game_num % 2 = 0 THEN <<agent1, agent2>> ELSE <<agent2, agent1>>

\* a mutation of RemapWinner: the seat is reported as it is
RemapWinnerIdentity(w, game_num) == w
\* lines 116-126: the seat that won, named by role (1 challenger, 2 defender)
RemapWinner(w, game_num) ==
    IF game_num % 2 = 0 THEN w
    ELSE IF w = 1 THEN 2
    ELSE IF w = 2 THEN 1
    ELSE w

NoSeats == << >>
NoResult == [game |-> 0, winner |-> None, challenger_first |-> FALSE, error |-> "absent"]

\* _run_single_game(agent1_path, agent2_path, game_num): what it returns, and
\* whether it returns at all
RunSingleGame(kind1, kind2, game_num, board_size) ==
    LET agent1 == load_agent_from_file("challenger", kind1, 1)
        agent2 == load_agent_from_file("defender", kind2, 2)
        seats == Seats(agent1, agent2, game_num)
        loaded == Loadable(kind1) /\ Loadable(kind2)
        out == play_game(seats[1], seats[2], board_size)
        faulted == ~loaded \/ out.pc = "raised"
    IN  [returns |-> faulted \/ out.pc # "blocked",
         result |-> [game |-> game_num + 1,
                     winner |-> IF faulted THEN 2
                                ELSE RemapWinner(out.winner, game_num),
                     challenger_first |-> game_num % 2 = 0,
                     error |-> "absent"]]

VARIABLES
    games,        \* run_match's argument games
    max_workers,  \* run_match's argument max_workers
    sources,      \* sources[1], sources[2]: what agent1_path / agent2_path hold
    mpc,          \* where run_match is: start, collecting, finished, failed
    fut,          \* fut[game_num]: the future of that game's task
    yielded,      \* the futures as_completed has handed to the loop
    order,        \* their game numbers, in the order they were handed over
    results       \* the dict results (error_result once the match failed)

matchVars == <<games, max_workers, sources, mpc, fut, yielded, order, results>>

QueuedFuture == [state |-> "queued", seats |-> NoSeats, result |-> NoResult]

\* a rate: Python's true division wins / games, kept as the fraction
Rate(n, d) == [num |-> n, den |-> d]
NoRate == [num |-> 0, den |-> 0]

\* lines 163-175
NewResults(n) ==
    [winner |-> "None", challenger_wins |-> 0, defender_wins |-> 0, draws |-> 0,
     games |-> << >>, total_games |-> n, success |-> TRUE, error |-> "absent",
     challenger_win_rate |-> NoRate, defender_win_rate |-> NoRate,
     draw_rate |-> NoRate]

\* lines 259-270: error_result, which has no draws, no per-game records and
\* no rates
ErrorResult(n) ==
    [winner |-> "defender", challenger_wins |-> 0, defender_wins |-> n,
     total_games |-> n, success |-> FALSE, error |-> "exception"]

\* a mutation of Tally: a draw is not counted
TallyWithoutDraws(res, game_result) ==
    LET w == game_result.winner IN
    [res EXCEPT
        !.challenger_wins = IF w = 1 THEN @ + 1 ELSE @,
        !.defender_wins = IF w # 0 /\ w # 1 THEN @ + 1 ELSE @,
        !.games = Append(@, game_result)]
\* lines 196-214: one game result folded into the counters and appended
Tally(res, game_result) ==
    LET w == game_result.winner IN
    [res EXCEPT
        !.draws = IF w = 0 THEN @ + 1 ELSE @,
        !.challenger_wins = IF w = 1 THEN @ + 1 ELSE @,
        !.defender_wins = IF w # 0 /\ w # 1 THEN @ + 1 ELSE @,
        !.games = Append(@, game_result)]

\* lines 216-229: future.result() raised
TallyFault(res, game_num) ==
    [res EXCEPT
        !.defender_wins = @ + 1,
        !.games = Append(@, [game |-> game_num + 1, winner |-> 2,
                             challenger_first |-> game_num % 2 = 0,
                             error |-> "exception"])]

\* list.sort(key=lambda x: x["game"]): a stable sort, as insertion
RECURSIVE InsertByGame(_, _)
InsertByGame(sorted, x) ==
    IF sorted = << >> THEN <<x>>
    ELSE IF sorted[Len(sorted)].game <= x.game THEN Append(sorted, x)
    ELSE Append(InsertByGame(SubSeq(sorted, 1, Len(sorted) - 1), x),
                sorted[Len(sorted)])
\* a mutation of SortByGame: the records stay in the order of collection
SortByGameSkipped(seq) == seq
RECURSIVE SortByGame(_)
SortByGame(seq) ==
    IF seq = << >> THEN << >>
    ELSE InsertByGame(SortByGame(SubSeq(seq, 1, Len(seq) - 1)), seq[Len(seq)])

\* a mutation of Verdict: a side needs more wins than the other side's wins
\* and the draws together
VerdictCountingDraws(res) ==
    IF res.challenger_wins > res.defender_wins + res.draws THEN "challenger"
    ELSE IF res.defender_wins > res.challenger_wins + res.draws THEN "defender"
    ELSE "tie"
\* lines 239-245
Verdict(res) ==
    IF res.challenger_wins > res.defender_wins THEN "challenger"
    ELSE IF res.defender_wins > res.challenger_wins THEN "defender"
    ELSE "tie"

\* lines 231-245
Finalized(res, n) ==
    LET sorted == [res EXCEPT !.games = SortByGame(@)] IN
    [sorted EXCEPT
        !.challenger_win_rate = Rate(res.challenger_wins, n),
        !.defender_win_rate = Rate(res.defender_wins, n),
        !.draw_rate = Rate(res.draws, n),
        !.winner = Verdict(res)]

\* a mutation of Min: the larger of the two
MinTakesLarger(a, b) == IF a <= b THEN b ELSE a
Min(a, b) == IF a <= b THEN a ELSE b
GameNums == 0 .. (games - 1)
Running == {g \in GameNums : fut[g].state = "running"}

MatchInit ==
    /\ games \in 0 .. MaxGames
    /\ max_workers \in 0 .. MaxWorkers
    /\ sources \in [1 .. 2 -> Kinds]
    /\ mpc = "start"
    /\ fut = << >>
    /\ yielded = {}
    /\ order = << >>
    /\ results = NewResults(games)

\* lines 154-185: the results dict, the pool (ThreadPoolExecutor raises
\* ValueError for max_workers <= 0, which the outer handler turns into
\* error_result), and one task submitted per game
StartMatch ==
    /\ mpc = "start"
    /\ IF Min(max_workers, games) <= 0
       THEN /\ mpc' = "failed"
            /\ results' = ErrorResult(games)
            /\ fut' = fut
       ELSE /\ mpc' = "collecting"
            /\ results' = NewResults(games)
            /\ fut' = [g \in GameNums |-> QueuedFuture]
    /\ UNCHANGED <<games, max_workers, sources, yielded, order>>

\* a free worker thread of the pool takes the oldest queued task and runs
\* _run_single_game up to its call of play_game
StartGame ==
    /\ mpc = "collecting"
    /\ Cardinality(Running) < Min(max_workers, games)
    /\ \E g \in GameNums :
          /\ fut[g].state = "queued"
          /\ \A h \in GameNums : h < g => fut[h].state # "queued"
          /\ fut' = [fut EXCEPT
                ![g].state = "running",
                ![g].seats =
                    IF Loadable(sources[1]) /\ Loadable(sources[2])
                    THEN Seats(load_agent_from_file("challenger", sources[1], 1),
                               load_agent_from_file("defender", sources[2], 2), g)
                    ELSE NoSeats]
    /\ UNCHANGED <<games, max_workers, sources, mpc, yielded, order, results>>

\* _run_single_game returns: the task's future is done
FinishGame ==
    /\ mpc = "collecting"
    /\ \E g \in Running :
          LET run == RunSingleGame(sources[1], sources[2], g, BoardSize) IN
             /\ run.returns
             /\ fut' = [fut EXCEPT ![g].state = "done", ![g].result = run.result]
    /\ UNCHANGED <<games, max_workers, sources, mpc, yielded, order, results>>

\* one round of "for future in as_completed(future_to_game)": a done future
\* is handed over and its result folded in
CollectResult ==
    /\ mpc = "collecting"
    /\ \E g \in GameNums \ yielded :
          /\ fut[g].state \in {"done", "raised"}
          /\ yielded' = yielded \cup {g}
          /\ order' = Append(order, g)
          /\ results' = IF fut[g].state = "done"
                        THEN Tally(results, fut[g].result)
                        ELSE TallyFault(results, g)
    /\ UNCHANGED <<games, max_workers, sources, mpc, fut>>

\* every future was handed over: the pool is left, the results are sorted,
\* the rates and the verdict computed, and run_match returns
FinishMatch ==
    /\ mpc = "collecting"
    /\ yielded = GameNums
    /\ mpc' = "finished"
    /\ results' = Finalized(results, games)
    /\ UNCHANGED <<games, max_workers, sources, fut, yielded, order>>

MatchNext ==
    \/ StartMatch
    \/ StartGame
    \/ FinishGame
    \/ CollectResult
    \/ FinishMatch

(***************************************************************************)
(* Properties of the match engine.                                         *)
(***************************************************************************)
\* the per-game records of the report whose winner is w
RecordsWon(w) == {i \in 1 .. Len(results.games) : results.games[i].winner = w}

\* C8: in every match of N >= 1 games that run_match completes (it returns
\* results, not error_result), whatever the order the games complete in, challenger_wins + defender_wins + draws = N,
\* the report holds exactly N per-game records, one per game, and each game is
\* counted in exactly the counter its recorded winner names (the same holds
\* of the games collected so far while the match runs).
C8_CountersAddUp ==
    /\ mpc \in {"collecting", "finished"}
       => /\ results.challenger_wins = Cardinality(RecordsWon(1))
          /\ results.defender_wins = Cardinality(RecordsWon(2))
          /\ results.draws = Cardinality(RecordsWon(0))
          /\ results.challenger_wins + results.defender_wins + results.draws
                = Len(results.games)
          /\ Len(results.games) = Cardinality(yielded)
    /\ (mpc = "finished" /\ games >= 1)
       => /\ results.challenger_wins + results.defender_wins + results.draws = games
          /\ Len(results.games) = games
          /\ {results.games[i].game : i \in 1 .. games} = 1 .. games

\* C8 witness: a completed match of at least three games with draws and wins
C8_Witness ==
    /\ mpc = "finished"
    /\ games >= 3
    /\ results.draws > 0
    /\ results.challenger_wins + results.defender_wins > 0

\* C9: when both agents always return None, every game is lost by the side
\* that moves first in it: a game the challenger moves first in (even 0-based
\* index) is credited to the defender, a game the defender moves first in to
\* the challenger, and there are no draws.
C9_ResignersLoseMovingFirst ==
    (sources = <<"resign", "resign">> /\ mpc \in {"collecting", "finished"})
    => /\ \A i \in 1 .. Len(results.games) :
             results.games[i].winner
                = IF (results.games[i].game - 1) % 2 = 0 THEN 2 ELSE 1
       /\ results.draws = 0
       /\ mpc = "finished"
          => /\ results.defender_wins = (games + 1) \div 2
             /\ results.challenger_wins = games \div 2

\* C9 witness: a completed match of resigning agents, with games of both parities
C9_Witness ==
    /\ sources = <<"resign", "resign">>
    /\ mpc = "finished"
    /\ games >= 2
    /\ results.challenger_wins >= 1
    /\ results.defender_wins >= 1

\* C10: the challenger's agent is play_game's first agent exactly in the games
\* of even 0-based index and the defender's in the odd ones, challenger_first
\* of each per-game record says which, and in a match of an even number of
\* games each side moves first in exactly half of them.
C10_SeatsAlternate ==
    /\ \A g \in DOMAIN fut :
          fut[g].seats # NoSeats
          => /\ fut[g].seats[1].src = (IF g % 2 = 0 THEN "challenger" ELSE "defender")
             /\ fut[g].seats[2].src = (IF g % 2 = 0 THEN "defender" ELSE "challenger")
    /\ results.success
       => \A i \in 1 .. Len(results.games) :
             LET r == results.games[i] IN
                /\ r.challenger_first <=> (r.game - 1) % 2 = 0
                /\ fut[r.game - 1].seats # NoSeats
                   => (r.challenger_first
                          <=> fut[r.game - 1].seats[1].src = "challenger")
    /\ (mpc = "finished" /\ games % 2 = 0)
       => /\ 2 * Cardinality({i \in 1 .. Len(results.games) :
                                  results.games[i].challenger_first}) = games
          /\ \A side \in {"challenger", "defender"} :
                (\A g \in DOMAIN fut : fut[g].seats # NoSeats)
                => 2 * Cardinality({g \in DOMAIN fut : fut[g].seats[1].src = side})
                      = games

\* C10 witness: a completed match of four games that were all played
C10_Witness ==
    /\ mpc = "finished"
    /\ games = 4
    /\ \A g \in DOMAIN fut : fut[g].seats # NoSeats

\* the game that play_game played for game g of the match, and how it ended
PlayOf(g) == play_game(fut[g].seats[1], fut[g].seats[2], BoardSize)

\* the role (1 challenger, 2 defender, 0 nobody: a draw) whose agent won game
\* g by the rules of the game: the seat play_game named, or the opponent of
\* the seat whose agent returned a malformed move
RoleThatWon(g) ==
    LET out == PlayOf(g)
        seat == IF out.pc = "raised" THEN 3 - out.current_player ELSE out.winner
    IN  IF seat = 0 THEN 0
        ELSE IF fut[g].seats[seat].src = "challenger" THEN 1 ELSE 2

\* C11: the winner of a per-game record names the role, not the seat: 1 iff
\* the challenger's agent won the game, 2 iff the defender's agent won it, 0
\* iff it was a draw, whichever seat the challenger sat in.
C11_WinnerNamesRole ==
    mpc \in {"collecting", "finished"}
    => \A i \in 1 .. Len(results.games) :
          LET r == results.games[i] IN
             fut[r.game - 1].seats # NoSeats
             => r.winner = RoleThatWon(r.game - 1)

\* the execution of game g raised a fault: an agent did not load, or
\* play_game raised
GameFaulted(g) == fut[g].seats = NoSeats \/ PlayOf(g).pc = "raised"

\* C12: a game whose execution raised a fault is recorded as a defender win
\* with an error attached to its record, and every game of the match is still
\* recorded.
C12_GameFaultRecorded ==
    /\ mpc \in {"collecting", "finished"}
       => \A i \in 1 .. Len(results.games) :
             LET r == results.games[i] IN
                GameFaulted(r.game - 1) => (r.winner = 2 /\ r.error # "absent")
    /\ mpc = "finished" => Len(results.games) = games

\* C13: when an agent source cannot be loaded, run_match returns a result
\* with verdict defender, defender_wins = N, challenger_wins = 0, an error
\* recorded and success = false.
C13_LoadFaultFailsClosed ==
    (/\ mpc \in {"finished", "failed"}
     /\ games >= 1
     /\ \E s \in 1 .. 2 : ~Loadable(sources[s]))
    => /\ results.winner = "defender"
       /\ results.defender_wins = games
       /\ results.challenger_wins = 0
       /\ ~results.success
       /\ results.error # "absent"

\* C14: a match in which exactly one side's source cannot be loaded is lost
\* for that side, and the report marks it as failed.
C14_LoadFaultChargedToSide ==
    (mpc = "finished" /\ games >= 1 /\ Loadable(sources[1]) # Loadable(sources[2]))
    => /\ results.winner = (IF Loadable(sources[1]) THEN "challenger" ELSE "defender")
       /\ (~results.success \/ results.error # "absent")

\* game g was played and ended by a forfeit: play_game named the opponent of
\* the acting player the winner
EndedByForfeit(g) ==
    /\ fut[g].seats # NoSeats
    /\ PlayOf(g).pc = "returned"
    /\ PlayOf(g).winner = 3 - PlayOf(g).current_player

\* C15: every game of a match that ended by a forfeit has the cause attached
\* to its per-game record.
C15_ForfeitCauseAttached ==
    mpc \in {"collecting", "finished"}
    => \A i \in 1 .. Len(results.games) :
          EndedByForfeit(results.games[i].game - 1)
          => results.games[i].error # "absent"

\* the results after the games 0 .. n-1 were collected in the order of index
RECURSIVE TalliedInOrder(_)
TalliedInOrder(n) ==
    IF n = 0 THEN NewResults(games)
    ELSE Tally(TalliedInOrder(n - 1),
               RunSingleGame(sources[1], sources[2], n - 1, BoardSize).result)

\* C16: whatever order the games finish and are collected in, the finished
\* report lists the per-game records in ascending game index, every index
\* 1..N exactly once, and its counters, rates and verdict (the whole report)
\* are those of the match collected in the order of index.
C16_ReportIndependentOfOrder ==
    mpc = "finished"
    => /\ Len(results.games) = games
       /\ \A i \in 1 .. games : results.games[i].game = i
       /\ results = Finalized(TalliedInOrder(games), games)

\* C16 witness: a finished match with wins and draws whose games were
\* collected out of the order of index
C16_Witness ==
    /\ mpc = "finished"
    /\ games >= 3
    /\ \E i \in 1 .. (Len(order) - 1) : order[i] > order[i + 1]
    /\ results.draws > 0
    /\ results.challenger_wins + results.defender_wins > 0

\* C17: the verdict of a completed match is challenger iff challenger_wins >
\* defender_wins, defender iff defender_wins > challenger_wins, tie iff they
\* are equal, whatever the number of draws.
C17_VerdictByMajority ==
    mpc = "finished"
    => /\ results.winner = "challenger"
             <=> results.challenger_wins > results.defender_wins
       /\ results.winner = "defender"
             <=> results.defender_wins > results.challenger_wins
       /\ results.winner = "tie"
             <=> results.challenger_wins = results.defender_wins

\* C17 witness: a completed match that the challenger wins with no more wins
\* than there are draws
C17_Witness ==
    /\ mpc = "finished"
    /\ results.winner = "challenger"
    /\ results.challenger_wins > results.defender_wins
    /\ results.draws >= results.challenger_wins

\* how far the task of a game is: queued, running, done
StateRank(st) ==
    CASE st = "queued" -> 0
      [] st = "running" -> 1
      [] st = "done" -> 2

\* C18: all N games are submitted when the match starts, at every moment at
\* most min(max_workers, N) of them are running, and each game is run
\* exactly once: its task only goes from queued to running to done, and every
\* task is done when the match is finished.
C18_BoundedPool ==
    [][/\ (mpc = "start" /\ mpc' = "collecting")
          => /\ DOMAIN fut' = 0 .. (games - 1)
             /\ \A g \in DOMAIN fut' : fut'[g].state = "queued"
       /\ mpc' = "collecting"
          => Cardinality({g \in DOMAIN fut' : fut'[g].state = "running"})
                <= (IF max_workers <= games THEN max_workers ELSE games)
       /\ mpc = "collecting"
          => /\ DOMAIN fut' = DOMAIN fut
             /\ \A g \in DOMAIN fut :
                   \/ StateRank(fut'[g].state) = StateRank(fut[g].state)
                   \/ StateRank(fut'[g].state) = StateRank(fut[g].state) + 1
       /\ mpc' = "finished"
          => \A g \in DOMAIN fut' : fut'[g].state = "done"
      ]_matchVars

\* C18 witness: the pool is saturated: max_workers < N games, max_workers of
\* them running, one done and one still queued
C18_Witness ==
    /\ mpc = "collecting"
    /\ max_workers < games
    /\ Cardinality(Running) = max_workers
    /\ \E g \in GameNums : fut[g].state = "queued"
    /\ \E g \in GameNums : fut[g].state = "done"

\* C24: in every game of a match the agent in seat s of play_game was built
\* with player = s.
C24_SeatIsIdentity ==
    \A g \in DOMAIN fut :
        fut[g].seats # NoSeats
        => \A seat \in 1 .. 2 : fut[g].seats[seat].player = seat

(***************************************************************************)
(* The search agent (src/gomoku/search.py): the opening shortcut of        *)
(* Search.make_move.                                                       *)
(***************************************************************************)
VARIABLES
    sboard,   \* the board make_move is called with
    smove     \* what make_move returned (NoAnswer: not called yet)

searchVars == <<sboard, smove>>

\* np.sum(board != 0)
StoneCount(b) == Cardinality(OccupiedCells(b))

\* _is_opening
is_opening(b) == StoneCount(b) <= 2

\* a mutation of OpeningOffsets: down is tried before right
OpeningOffsetsDownFirst ==
    << <<1, 0>>, <<0, 1>>, <<0, -1>>, <<-1, 0>>,
       <<1, 1>>, <<1, -1>>, <<-1, 1>>, <<-1, -1>> >>
\* the offsets of _opening_move, in the order they are tried
OpeningOffsets ==
    << <<0, 1>>, <<1, 0>>, <<0, -1>>, <<-1, 0>>,
       <<1, 1>>, <<1, -1>>, <<-1, 1>>, <<-1, -1>> >>

\* the for loop of _opening_move from the i-th offset on: the first cell next
\* to the centre that is on the board and empty, None when the loop ends
RECURSIVE FirstFreeNeighbour(_, _, _)
FirstFreeNeighbour(b, center, i) ==
    IF i > Len(OpeningOffsets)
    THEN ReturnsNone
    ELSE LET row == center + OpeningOffsets[i][1]
             col == center + OpeningOffsets[i][2]
         IN  IF /\ 0 <= row /\ row < len(b)
                /\ 0 <= col /\ col < len(b)
                /\ b[row][col] = 0
             THEN Cell(row, col)
             ELSE FirstFreeNeighbour(b, center, i + 1)

\* _opening_move: the values it can return (random.choice is any of the
\* empty cells)
opening_move(b) ==
    LET center == len(b) \div 2 IN
    IF StoneCount(b) = 0
    THEN {Cell(center, center)}
    ELSE IF FirstFreeNeighbour(b, center, 1) # ReturnsNone
    THEN {FirstFreeNeighbour(b, center, 1)}
    ELSE IF EmptyCells(b) = {}
    THEN {ReturnsNone}
    ELSE {Cell(x[1], x[2]) : x \in EmptyCells(b)}

\* the board of size n with the stones of the sequence of cells, black and
\* white in turn
PlaceStones(n, stones) ==
    [r \in 0 .. (n - 1) |-> [c \in 0 .. (n - 1) |->
        IF \E i \in DOMAIN stones : stones[i] = <<r, c>>
        THEN 2 - ((CHOOSE i \in DOMAIN stones : stones[i] = <<r, c>>) % 2)
        ELSE 0]]

\* the boards make_move is called with: up to MaxStones stones anywhere on a
\* board of up to MaxSearchSize rows
SearchInit ==
    /\ \E n \in 1 .. MaxSearchSize, k \in 0 .. MaxStones :
          \E stones \in [1 .. k -> (0 .. (n - 1)) \X (0 .. (n - 1))] :
             sboard = PlaceStones(n, stones)
    /\ smove = NoAnswer

\* Search.make_move(board) on a board in the opening (lines 32-34)
SearchOpening ==
    /\ smove = NoAnswer
    /\ is_opening(sboard)
    /\ smove' \in opening_move(sboard)
    /\ UNCHANGED sboard

\* the cell (r, c) is on the board b and empty
Free(b, r, c) ==
    /\ 0 <= r /\ r < len(b)
    /\ 0 <= c /\ c < len(b)
    /\ b[r][c] = 0

\* C20: on an empty N x N board make_move returns the centre (N \div 2,
\* N \div 2); with one or two stones on the board it returns the first empty
\* cell next to the centre in the order right, down, left, up, then a
\* diagonal neighbour, and only if none of the eight is available an empty
\* cell of the board.
C20_OpeningMove ==
    (smove # NoAnswer /\ StoneCount(sboard) <= 2)
    => LET c == len(sboard) \div 2
           diagonals == {d \in {<<c + 1, c + 1>>, <<c + 1, c - 1>>,
                                <<c - 1, c + 1>>, <<c - 1, c - 1>>} :
                            Free(sboard, d[1], d[2])}
       IN  IF StoneCount(sboard) = 0 THEN smove = Cell(c, c)
           ELSE IF Free(sboard, c, c + 1) THEN smove = Cell(c, c + 1)
           ELSE IF Free(sboard, c + 1, c) THEN smove = Cell(c + 1, c)
           ELSE IF Free(sboard, c, c - 1) THEN smove = Cell(c, c - 1)
           ELSE IF Free(sboard, c - 1, c) THEN smove = Cell(c - 1, c)
           ELSE IF diagonals # {}
           THEN \E d \in diagonals : smove = Cell(d[1], d[2])
           ELSE EmptyCells(sboard) # {}
                => \E x \in EmptyCells(sboard) : smove = Cell(x[1], x[2])

\* C20 witness: with the cells right of and below the centre taken, the cell
\* left of the centre was returned
C20_Witness ==
    /\ StoneCount(sboard) = 2
    /\ len(sboard) >= 3
    /\ smove = Cell(len(sboard) \div 2, (len(sboard) \div 2) - 1)

(***************************************************************************)
(* The search agent: candidate generation, win test and evaluation.        *)
(***************************************************************************)
\* float("inf")
Infinity == 2000000000

\* a mutation of get_candidate_moves: only the cells next to a stone
get_candidate_moves_adjacent(b) ==
    IF StoneCount(b) = 0
    THEN {<<len(b) \div 2, len(b) \div 2>>}
    ELSE {x \in AllCells(b) :
            /\ b[x[1]][x[2]] = 0
            /\ \E di \in -1 .. 1, dj \in -1 .. 1 :
                  /\ x[1] - di \in DOMAIN b
                  /\ x[2] - dj \in DOMAIN b
                  /\ b[x[1] - di][x[2] - dj] # 0}
\* _get_candidate_moves: the set candidates (the centre on an empty board)
get_candidate_moves(b) ==
    IF StoneCount(b) = 0
    THEN {<<len(b) \div 2, len(b) \div 2>>}
    ELSE {x \in AllCells(b) :
            /\ b[x[1]][x[2]] = 0
            /\ \E di \in -2 .. 2, dj \in -2 .. 2 :
                  /\ x[1] - di \in DOMAIN b
                  /\ x[2] - dj \in DOMAIN b
                  /\ b[x[1] - di][x[2] - dj] # 0}

\* the cells of S on a board of n rows as a list, from the k-th cell on:
\* row-major, or the reverse of it (rev)
RECURSIVE CellsInOrder(_, _, _, _)
CellsInOrder(S, n, k, rev) ==
    IF k >= n * n THEN << >>
    ELSE LET i == IF rev THEN n * n - 1 - k ELSE k
             x == <<i \div n, i % n>>
         IN  IF x \in S
             THEN <<x>> \o CellsInOrder(S, n, k + 1, rev)
             ELSE CellsInOrder(S, n, k + 1, rev)

\* list(candidates): the order in which Python iterates the set is not
\* specified; rev picks one of two orders
CandidateList(b, rev) == CellsInOrder(get_candidate_moves(b), len(b), 0, rev)

\* seq[:n]
Take(seq, n) == SubSeq(seq, 1, IF Len(seq) < n THEN Len(seq) ELSE n)

\* new_board = board.copy(); new_board[move[0]][move[1]] = player
Place(b, move, player) == [b EXCEPT ![move[1]][move[2]] = player]

\* Search._check_win(board, move) for a move that is not None
search_check_win(b, move) ==
    \E i \in DOMAIN directions :
        LineCount(b, move[1], move[2], directions[i]) >= 4

\* Search._is_game_over
is_game_over(b, last_move) ==
    search_check_win(b, last_move) \/ EmptyCells(b) = {}

\* the test at the head of _minimax and of _alpha_beta: the node is evaluated,
\* not expanded
IsLeaf(b, depth, last_move) == depth = 0 \/ is_game_over(b, last_move)

\* the two tests after the while loops of _evaluate_line
BlockedAt(b, x, y, player) ==
    \/ x < 0 \/ x >= len(b)
    \/ y < 0 \/ y >= len(b)
    \/ b[x][y] = 3 - player

\* the table at the end of _evaluate_line
LineValue(count, blocks) ==
    IF count >= 5 THEN 1000000
    ELSE IF count = 4
    THEN (IF blocks = 0 THEN 100000 ELSE IF blocks = 1 THEN 50000 ELSE 100)
    ELSE IF count = 3
    THEN (IF blocks = 0 THEN 60000 ELSE IF blocks = 1 THEN 1000 ELSE 10)
    ELSE IF count = 2
    THEN (IF blocks = 0 THEN 100 ELSE IF blocks = 1 THEN 10 ELSE 5)
    ELSE 1

\* a mutation of evaluate_line: only the forward end is looked at
evaluate_line_forward(b, row, col, dx, dy, player) ==
    LET fwd == CountRun(b, row, col, dx, dy, player)
        bwd == CountRun(b, row - dx, col - dy, -dx, -dy, player)
        blocks == IF BlockedAt(b, row + fwd * dx, col + fwd * dy, player)
                  THEN 1 ELSE 0
    IN  LineValue(fwd + bwd, blocks)
\* Search._evaluate_line
evaluate_line(b, row, col, dx, dy, player) ==
    LET fwd == CountRun(b, row, col, dx, dy, player)
        bwd == CountRun(b, row - dx, col - dy, -dx, -dy, player)
        blocks == (IF BlockedAt(b, row + fwd * dx, col + fwd * dy, player)
                   THEN 1 ELSE 0)
                  + (IF BlockedAt(b, row - (bwd + 1) * dx,
                                  col - (bwd + 1) * dy, player)
                     THEN 1 ELSE 0)
    IN  LineValue(fwd + bwd, blocks)

\* the double loop of _evaluate_player from the k-th cell on
RECURSIVE EvaluateFrom(_, _, _)
EvaluateFrom(b, player, k) ==
    IF k >= len(b) * len(b) THEN 0
    ELSE LET i == k \div len(b)
             j == k % len(b)
         IN  (IF b[i][j] = player
              THEN evaluate_line(b, i, j, 0, 1, player)
                   + evaluate_line(b, i, j, 1, 0, player)
                   + evaluate_line(b, i, j, 1, 1, player)
                   + evaluate_line(b, i, j, 1, -1, player)
              ELSE 0)
             + EvaluateFrom(b, player, k + 1)

\* Search._evaluate_player
evaluate_player(b, player) == EvaluateFrom(b, player, 0)

\* Search._evaluate_board for the instance built with player
evaluate_board(b, player) ==
    evaluate_player(b, player) - evaluate_player(b, 3 - player)

\* Search._evaluate_position
evaluate_position(b, move) ==
    LET center == len(b) \div 2
        dr == IF move[1] >= center THEN move[1] - center ELSE center - move[1]
        dc == IF move[2] >= center THEN move[2] - center ELSE center - move[2]
        near == {x \in AllCells(b) :
                    /\ x[1] - move[1] \in -1 .. 1
                    /\ x[2] - move[2] \in -1 .. 1
                    /\ b[x[1]][x[2]] # 0}
    IN  (IF 10 - (dr + dc) > 0 THEN 10 - (dr + dc) ELSE 0)
        + 5 * Cardinality(near)

\* wins / max(simulations, 1) * 1000 of the rollouts of _quick_mcts_evaluate:
\* none, half or all of the rollouts won
RolloutRates == {0, 500, 1000}

\* Search._quick_mcts_evaluate when the rollouts give rate
quick_mcts_value(b, move, player, rate) ==
    IF search_check_win(Place(b, move, player), move)
    THEN 100000
    ELSE IF search_check_win(Place(b, move, 3 - player), move)
    THEN 50000
    ELSE rate + evaluate_position(Place(b, move, player), move)

\* Search._quick_mcts_evaluate: the values it can return
quick_mcts_evaluate(b, move, player) ==
    {quick_mcts_value(b, move, player, rate) : rate \in RolloutRates}

\* max(a, b)
Max(a, b) == IF a >= b THEN a ELSE b

\* Search._minimax for the instance built with player; MinimaxFrom is its
\* loop from the i-th candidate on, with the best score so far
RECURSIVE minimax(_, _, _, _, _, _)
RECURSIVE MinimaxFrom(_, _, _, _, _, _, _, _)
minimax(b, depth, is_maximizing, last_move, player, rev) ==
    IF IsLeaf(b, depth, last_move)
    THEN evaluate_board(b, player)
    ELSE MinimaxFrom(b, depth, is_maximizing,
                     Take(CandidateList(b, rev), 10), 1,
                     IF is_maximizing THEN -Infinity ELSE Infinity,
                     player, rev)
MinimaxFrom(b, depth, is_maximizing, candidates, i, best, player, rev) ==
    IF i > Len(candidates) THEN best
    ELSE LET move == candidates[i]
             mover == IF is_maximizing THEN player ELSE 3 - player
             score == minimax(Place(b, move, mover), depth - 1,
                              ~is_maximizing, move, player, rev)
         IN  MinimaxFrom(b, depth, is_maximizing, candidates, i + 1,
                         IF is_maximizing THEN Max(best, score)
                         ELSE Min(best, score),
                         player, rev)

\* Search._alpha_beta for the instance built with player; AlphaBetaFrom is
\* its loop from the i-th candidate on, with the best score so far
RECURSIVE alpha_beta(_, _, _, _, _, _, _, _)
RECURSIVE AlphaBetaFrom(_, _, _, _, _, _, _, _, _, _)
\* a mutation of AlphaBetaFrom: the loop is left after the first candidate,
\* whatever alpha and beta are
AlphaBetaFromFirst(b, depth, alpha, beta, is_maximizing, candidates, i, best, player, rev) ==
    IF i > Len(candidates) THEN best
    ELSE LET move == candidates[i]
             mover == IF is_maximizing THEN player ELSE 3 - player
             score == alpha_beta(Place(b, move, mover), depth - 1,
                                 alpha, beta, ~is_maximizing, move, player,
                                 rev)
         IN  IF is_maximizing THEN Max(best, score) ELSE Min(best, score)
alpha_beta(b, depth, alpha, beta, is_maximizing, last_move, player, rev) ==
    IF IsLeaf(b, depth, last_move)
    THEN evaluate_board(b, player)
    ELSE AlphaBetaFrom(b, depth, alpha, beta, is_maximizing,
                       Take(CandidateList(b, rev), 8), 1,
                       IF is_maximizing THEN -Infinity ELSE Infinity,
                       player, rev)
AlphaBetaFrom(b, depth, alpha, beta, is_maximizing, candidates, i, best, player, rev) ==
    IF i > Len(candidates) THEN best
    ELSE LET move == candidates[i]
             mover == IF is_maximizing THEN player ELSE 3 - player
             score == alpha_beta(Place(b, move, mover), depth - 1,
                                 alpha, beta, ~is_maximizing, move, player,
                                 rev)
         IN  IF is_maximizing
             THEN IF beta <= Max(alpha, score)
                  THEN Max(best, score)
                  ELSE AlphaBetaFrom(b, depth, Max(alpha, score), beta,
                                     is_maximizing, candidates, i + 1,
                                     Max(best, score), player, rev)
             ELSE IF Min(beta, score) <= alpha
                  THEN Min(best, score)
                  ELSE AlphaBetaFrom(b, depth, alpha, Min(beta, score),
                                     is_maximizing, candidates, i + 1,
                                     Min(best, score), player, rev)

\* the moves in the order a sort gives them, from the k-th place on; pos[i]
\* is the place of moves[i]
RECURSIVE InPlaces(_, _, _)
InPlaces(moves, pos, k) ==
    IF k > Len(moves) THEN << >>
    ELSE <<moves[CHOOSE i \in DOMAIN moves : pos[i] = k]>>
         \o InPlaces(moves, pos, k + 1)

\* the places of a stable sort of the scores from the i-th on, the lowest
\* (up) or the highest score first
RECURSIVE Places(_, _, _)
Places(scores, up, i) ==
    IF i > Len(scores) THEN << >>
    ELSE <<1 + Cardinality({j \in DOMAIN scores :
                \/ (IF up THEN scores[j] < scores[i]
                    ELSE scores[j] > scores[i])
                \/ scores[j] = scores[i] /\ j < i})>>
         \o Places(scores, up, i + 1)

\* a mutation of SortByScore: lowest score first
SortByScoreAscending(moves, scores) ==
    InPlaces(moves, Places(scores, TRUE, 1), 1)
\* move_scores.sort(key=lambda x: x[1], reverse=True): highest score first,
\* equal scores in their former order
SortByScore(moves, scores) ==
    InPlaces(moves, Places(scores, FALSE, 1), 1)

\* the scores _layer1_mcts_coarse_filter collects from the i-th candidate on
RECURSIVE QuickScores(_, _, _, _, _)
QuickScores(b, candidates, player, rates, i) ==
    IF i > Len(candidates) THEN << >>
    ELSE <<quick_mcts_value(b, candidates[i], player, rates[i])>>
         \o QuickScores(b, candidates, player, rates, i + 1)

\* the scores _layer2_alpha_beta_fine_filter collects from the i-th
\* candidate on
RECURSIVE AlphaBetaScores(_, _, _, _, _, _)
AlphaBetaScores(b, candidates, depth, player, rev, i) ==
    IF i > Len(candidates) THEN << >>
    ELSE <<alpha_beta(Place(b, candidates[i], player), depth - 1, -Infinity,
                      Infinity, FALSE, candidates[i], player, rev)>>
         \o AlphaBetaScores(b, candidates, depth, player, rev, i + 1)

\* the scores _layer3_minimax_decision computes from the i-th candidate on
RECURSIVE MinimaxScores(_, _, _, _, _, _)
MinimaxScores(b, candidates, depth, player, rev, i) ==
    IF i > Len(candidates) THEN << >>
    ELSE <<minimax(Place(b, candidates[i], player), depth - 1, FALSE,
                   candidates[i], player, rev)>>
         \o MinimaxScores(b, candidates, depth, player, rev, i + 1)

\* self.mcts_time (the default)
mcts_time == 8

\* a mutation of BestFrom: a later candidate with an equal score is taken
RECURSIVE BestFromLast(_, _, _, _, _)
BestFromLast(candidates, scores, i, best_move, best_score) ==
    IF i > Len(candidates) THEN best_move
    ELSE IF scores[i] >= best_score
    THEN BestFromLast(candidates, scores, i + 1, candidates[i], scores[i])
    ELSE BestFromLast(candidates, scores, i + 1, best_move, best_score)

\* the loop of _layer3_minimax_decision from the i-th candidate on
RECURSIVE BestFrom(_, _, _, _, _)
BestFrom(candidates, scores, i, best_move, best_score) ==
    IF i > Len(candidates) THEN best_move
    ELSE IF scores[i] > best_score
    THEN BestFrom(candidates, scores, i + 1, candidates[i], scores[i])
    ELSE BestFrom(candidates, scores, i + 1, best_move, best_score)

(***************************************************************************)
(* Calls of the search functions, one per behaviour, on boards that hold   *)
(* stones of both players along one line through the centre.               *)
(***************************************************************************)
VARIABLES eboard, eplayer, ecall
evalVars == <<eboard, eplayer, ecall>>

NoEvalCall ==
    [op |-> "none", row |-> 0, col |-> 0, d |-> 1, depth |-> 0,
     value |-> 0, flag |-> FALSE, cells |-> << >>]

\* Search(player) on a board of EvalSize rows
EvalInit ==
    /\ \E L \in Lines(EvalSize) : \E pat \in [L -> 0 .. 2] :
          eboard = [r \in 0 .. (EvalSize - 1) |->
                       [c \in 0 .. (EvalSize - 1) |->
                           IF <<r, c>> \in L THEN pat[<<r, c>>] ELSE 0]]
    /\ eplayer \in Players
    /\ ecall = NoEvalCall

\* self._get_candidate_moves(board)
CandidatesCall ==
    /\ ecall.op = "none"
    /\ \E rev \in BOOLEAN :
          ecall' = [NoEvalCall EXCEPT !.op = "candidates",
                                      !.flag = rev,
                                      !.cells = CandidateList(eboard, rev)]
    /\ UNCHANGED <<eboard, eplayer>>

\* self._evaluate_line(board, i, j, dx, dy, player) as _evaluate_player calls
\* it: on a stone of player
EvaluateLineCall ==
    /\ ecall.op = "none"
    /\ \E x \in OccupiedCells(eboard), i \in DOMAIN directions :
          ecall' = [NoEvalCall EXCEPT
                       !.op = "evaluate_line",
                       !.row = x[1], !.col = x[2], !.d = i,
                       !.value = evaluate_line(eboard, x[1], x[2],
                                               directions[i][1],
                                               directions[i][2],
                                               eboard[x[1]][x[2]])]
    /\ UNCHANGED <<eboard, eplayer>>

\* self._evaluate_board(board)
EvaluateBoardCall ==
    /\ ecall.op = "none"
    /\ ecall' = [NoEvalCall EXCEPT !.op = "evaluate_board",
                                   !.value = evaluate_board(eboard, eplayer)]
    /\ UNCHANGED <<eboard, eplayer>>

\* the head of _minimax and _alpha_beta on a node reached by the move
\* last_move: flag tells that the node is evaluated and not expanded
SearchNodeCall ==
    /\ ecall.op = "none"
    /\ \E last_move \in OccupiedCells(eboard), depth \in 0 .. MaxNodeDepth :
          ecall' = [NoEvalCall EXCEPT
                       !.op = "node",
                       !.row = last_move[1], !.col = last_move[2],
                       !.depth = depth,
                       !.flag = IsLeaf(eboard, depth, last_move)]
    /\ UNCHANGED <<eboard, eplayer>>

\* self._quick_mcts_evaluate(board, move, time_per_move) on a candidate
QuickEvaluateCall ==
    /\ ecall.op = "none"
    /\ \E move \in get_candidate_moves(eboard) :
          \E v \in quick_mcts_evaluate(eboard, move, eplayer) :
              ecall' = [NoEvalCall EXCEPT !.op = "quick",
                                          !.row = move[1], !.col = move[2],
                                          !.value = v]
    /\ UNCHANGED <<eboard, eplayer>>

EvalNext ==
    \/ CandidatesCall
    \/ EvaluateLineCall
    \/ EvaluateBoardCall
    \/ SearchNodeCall
    \/ QuickEvaluateCall

(***************************************************************************)
(* The claims about the search functions.                                  *)
(***************************************************************************)
Abs(a) == IF a < 0 THEN -a ELSE a

\* the empty cells at Chebyshev distance <= 2 of an occupied cell
NearStones(b) ==
    {x \in EmptyCells(b) :
        \E y \in OccupiedCells(b) :
            Abs(x[1] - y[1]) <= 2 /\ Abs(x[2] - y[2]) <= 2}

\* C21: on a non-empty board the candidate generator returns exactly the
\* empty cells at Chebyshev distance <= 2 of an occupied cell, each once; on
\* the empty board only the centre cell; never an occupied cell or a cell off
\* the board.
C21_Candidates ==
    ecall.op = "candidates"
    => LET cs == ecall.cells
           returned == {cs[i] : i \in DOMAIN cs}
       IN  /\ \A i, j \in DOMAIN cs : cs[i] = cs[j] => i = j
           /\ returned \subseteq EmptyCells(eboard)
           /\ IF OccupiedCells(eboard) = {}
              THEN cs = << <<EvalSize \div 2, EvalSize \div 2>> >>
              ELSE returned = NearStones(eboard)

\* C21 witness: a cell two steps from the only stone is returned and a cell
\* three steps from it is not
C21_Witness ==
    /\ ecall.op = "candidates"
    /\ Cardinality(OccupiedCells(eboard)) = 1
    /\ \E y \in OccupiedCells(eboard), i, j \in DOMAIN ecall.cells :
          /\ i < j
          /\ Abs(ecall.cells[i][1] - y[1]) = 2
          /\ Abs(ecall.cells[j][2] - y[2]) = 2
    /\ \E y \in OccupiedCells(eboard), x \in EmptyCells(eboard) :
          /\ Abs(x[1] - y[1]) = 3
          /\ \A i \in DOMAIN ecall.cells : ecall.cells[i] # x

\* the table of line values: rows by run length, columns by blocked ends
LineTable ==
    << <<1, 1, 1>>, <<100, 10, 5>>, <<60000, 1000, 10>>,
       <<100000, 50000, 100>> >>

\* the end of the run through (r, c) in direction d is off the board or holds
\* a stone of the other player
EndBlocked(b, r, c, d, k) ==
    \/ ~InBounds(b, r + k * d[1], c + k * d[2])
    \/ b[r + k * d[1]][c + k * d[2]] = 3 - b[r][c]

\* the value the table gives the line through the stone on (r, c)
TableValue(b, r, c, d) ==
    LET run == RunThrough(b, r, c, d)
        hi == CHOOSE k \in run : \A j \in run : j <= k
        lo == CHOOSE k \in run : \A j \in run : j >= k
        ends == {k \in {hi + 1, lo - 1} : EndBlocked(b, r, c, d, k)}
    IN  IF Cardinality(run) >= 5 THEN 1000000
        ELSE LineTable[Cardinality(run)][Cardinality(ends) + 1]

\* the sum of the table values of a set of (cell, direction) pairs
RECURSIVE TableSum(_, _)
TableSum(b, pairs) ==
    IF pairs = {} THEN 0
    ELSE LET q == CHOOSE q \in pairs : TRUE
         IN  TableValue(b, q[1][1], q[1][2], q[2])
             + TableSum(b, pairs \ {q})

\* score(board, p): every stone of p in each of the four directions
TableScore(b, p) ==
    TableSum(b, {x \in AllCells(b) : b[x[1]][x[2]] = p}
                \X {<<0, 1>>, <<1, 0>>, <<1, 1>>, <<1, -1>>})

\* C22: the value of a line through a stone is given by the table from the
\* length of the full contiguous run through the stone and the number of its
\* blocked ends (off the board or a stone of the other player), and the board
\* evaluation is score(own) - score(opponent).
C22_LineValues ==
    /\ ecall.op = "evaluate_line"
       => ecall.value
          = TableValue(eboard, ecall.row, ecall.col, directions[ecall.d])
    /\ ecall.op = "evaluate_board"
       => ecall.value
          = TableScore(eboard, eplayer) - TableScore(eboard, 3 - eplayer)

\* C22 witness: a run of four evaluated from a stone in its middle, blocked by
\* a stone of the other player behind it and open in front
C22_Witness ==
    /\ ecall.op = "evaluate_line"
    /\ ecall.value = 50000
    /\ LET d == directions[ecall.d]
       IN  /\ InBounds(eboard, ecall.row - 2 * d[1], ecall.col - 2 * d[2])
           /\ eboard[ecall.row - d[1]][ecall.col - d[2]]
              = eboard[ecall.row][ecall.col]
           /\ eboard[ecall.row - 2 * d[1]][ecall.col - 2 * d[2]]
              = 3 - eboard[ecall.row][ecall.col]

\* C23: a node of the exact or of the pruned search is terminal exactly when
\* the remaining depth is 0, or the last move completed five in a row, or the
\* board is full; after a last move that made only four in a row, with empty
\* cells and depth left, the node is expanded.
C23_TerminalNode ==
    ecall.op = "node"
    => ( ecall.flag
         <=> \/ ecall.depth = 0
             \/ FiveThrough(eboard, ecall.row, ecall.col)
             \/ EmptyCells(eboard) = {} )

\* C29: the quick evaluation of a candidate is 100,000 exactly when the
\* engine's stone there completes five in a row, 50,000 exactly when that is
\* not so and a stone of the opponent there would complete five in a row, and
\* the rollout score, below 50,000, in every other case.
C29_QuickEvaluate ==
    ecall.op = "quick"
    => LET move == <<ecall.row, ecall.col>>
           wins == FiveThrough(Place(eboard, move, eplayer),
                               ecall.row, ecall.col)
           blocks == FiveThrough(Place(eboard, move, 3 - eplayer),
                                 ecall.row, ecall.col)
       IN  /\ ecall.value = 100000 <=> wins
           /\ ecall.value = 50000 <=> (~wins /\ blocks)
           /\ (~wins /\ ~blocks) => ecall.value < 50000

(***************************************************************************)
(* Search.make_move after the opening: the three stages.                   *)
(***************************************************************************)
VARIABLES lboard, lplayer, lrev, alpha_beta_depth, minimax_depth, lpc,
          candidate_moves, scores1, evaluated, time_per_move,
          mcts_candidates, scores2, alpha_beta_candidates, scores3, best_move
layerVars ==
    <<lboard, lplayer, lrev, alpha_beta_depth, minimax_depth, lpc,
      candidate_moves, scores1, evaluated, time_per_move,
      mcts_candidates, scores2, alpha_beta_candidates, scores3, best_move>>

\* the cells next to the cell a on a board of n rows
NextTo(a, n) ==
    {x \in (0 .. (n - 1)) \X (0 .. (n - 1)) :
        /\ x # a
        /\ x[1] - a[1] \in -1 .. 1
        /\ x[2] - a[2] \in -1 .. 1}

\* Search(player, mcts_time, alpha_beta_depth, minimax_depth).make_move(board)
\* on a board past the opening: stones of both players in turn on a corner
\* or on the centre and on consecutive cells next to it, from the first or
\* the second of them on
LayerInit ==
    /\ \E n \in 3 .. MaxLayerSize :
          \E a \in {<<0, 0>>, <<n \div 2, n \div 2>>} :
             LET around == CellsInOrder(NextTo(a, n), n, 0, FALSE)
             IN  \E from \in DOMAIN around, to \in DOMAIN around :
                    /\ from <= 2
                    /\ from < to
                    /\ to - from + 2 <= MaxLayerStones
                    /\ lboard = PlaceStones(n, <<a>> \o SubSeq(around, from,
                                                               to))
    /\ lplayer \in Players
    /\ lrev \in BOOLEAN
    /\ alpha_beta_depth \in 1 .. MaxDepth
    /\ minimax_depth = alpha_beta_depth
    /\ lpc = "start"
    /\ candidate_moves = << >>
    /\ scores1 = << >>
    /\ evaluated = 0
    /\ time_per_move = NoRate
    /\ mcts_candidates = << >>
    /\ scores2 = << >>
    /\ alpha_beta_candidates = << >>
    /\ scores3 = << >>
    /\ best_move = NoAnswer

\* the rates the rollouts of n quick evaluations give: all lost, or all won
\* for the first or for the last candidate only
RECURSIVE RatesFrom(_, _, _)
RatesFrom(n, k, i) ==
    IF i > n THEN << >>
    ELSE <<IF i = k THEN 1000 ELSE 0>> \o RatesFrom(n, k, i + 1)
RolloutSamples(n) == {RatesFrom(n, k, 1) : k \in {0, 1, n}}

\* _layer1_mcts_coarse_filter
Layer1 ==
    /\ lpc = "start"
    /\ ~is_opening(lboard)
    /\ lpc' = "stage1"
    /\ candidate_moves' = CandidateList(lboard, lrev)
    /\ IF Len(candidate_moves') <= 10
       THEN /\ mcts_candidates' = candidate_moves'
            /\ UNCHANGED <<scores1, evaluated, time_per_move>>
       ELSE /\ time_per_move' = Rate(mcts_time, Min(Len(candidate_moves'), 20))
            /\ evaluated' = Len(candidate_moves')
            /\ \E rates \in RolloutSamples(Len(candidate_moves')) :
                  scores1' = QuickScores(lboard, candidate_moves', lplayer,
                                         rates, 1)
            /\ mcts_candidates'
               = Take(SortByScore(candidate_moves', scores1'), 15)
    /\ UNCHANGED <<lboard, lplayer, lrev, alpha_beta_depth, minimax_depth,
                   scores2, alpha_beta_candidates, scores3, best_move>>

\* _layer2_alpha_beta_fine_filter
Layer2 ==
    /\ lpc = "stage1"
    /\ lpc' = "stage2"
    /\ IF Len(mcts_candidates) <= 5
       THEN /\ alpha_beta_candidates' = mcts_candidates
            /\ UNCHANGED scores2
       ELSE /\ scores2' = AlphaBetaScores(lboard, mcts_candidates,
                                          alpha_beta_depth, lplayer, lrev, 1)
            /\ alpha_beta_candidates'
               = Take(SortByScore(mcts_candidates, scores2'), 5)
    /\ UNCHANGED <<lboard, lplayer, lrev, alpha_beta_depth, minimax_depth,
                   candidate_moves, scores1, evaluated, time_per_move,
                   mcts_candidates, scores3, best_move>>

\* _layer3_minimax_decision and the return of make_move; candidates[0] of an
\* empty list raises IndexError
Layer3 ==
    /\ lpc = "stage2"
    /\ IF Len(alpha_beta_candidates) = 1
       THEN /\ lpc' = "done"
            /\ best_move' = Cell(alpha_beta_candidates[1][1],
                                 alpha_beta_candidates[1][2])
            /\ UNCHANGED scores3
       ELSE IF Len(alpha_beta_candidates) = 0
       THEN /\ lpc' = "raised"
            /\ best_move' = Raises
            /\ UNCHANGED scores3
       ELSE /\ lpc' = "done"
            /\ scores3' = MinimaxScores(lboard, alpha_beta_candidates,
                                        minimax_depth, lplayer, lrev, 1)
            /\ LET best == BestFrom(alpha_beta_candidates, scores3', 1,
                                    alpha_beta_candidates[1], -Infinity)
               IN  best_move' = Cell(best[1], best[2])
    /\ UNCHANGED <<lboard, lplayer, lrev, alpha_beta_depth, minimax_depth,
                   candidate_moves, scores1, evaluated, time_per_move,
                   mcts_candidates, scores2, alpha_beta_candidates>>

LayerNext == Layer1 \/ Layer2 \/ Layer3

(***************************************************************************)
(* The claims about the three stages.                                      *)
(***************************************************************************)
Range(seq) == {seq[i] : i \in DOMAIN seq}

\* out holds the k candidates of in with the highest scores (all of them when
\* in has fewer than k), each once
KeepsTop(in, scores, out, k) ==
    /\ Len(out) = Min(k, Len(in))
    /\ Cardinality(Range(out)) = Len(out)
    /\ Range(out) \subseteq Range(in)
    /\ \A i, j \in DOMAIN in :
          (in[i] \in Range(out) /\ in[j] \notin Range(out))
          => scores[i] >= scores[j]

\* C27: stage 1 passes all candidates on when there are <= 10 and else keeps
\* the 15 with the highest scores; stage 2 passes all on when it receives
\* <= 5 and else keeps the 5 with the highest pruned-search value; stage 3
\* receives at most 5 candidates, every stage's output is a subset of its
\* input, and the move returned is one of the candidates the generator gives
\* for the board.
C27_StagesNarrow ==
    /\ lpc # "start"
       => /\ candidate_moves = CandidateList(lboard, lrev)
          /\ Range(mcts_candidates) \subseteq Range(candidate_moves)
          /\ IF Len(candidate_moves) <= 10
             THEN mcts_candidates = candidate_moves
             ELSE KeepsTop(candidate_moves, scores1, mcts_candidates, 15)
    /\ lpc \in {"stage2", "done", "raised"}
       => /\ Range(alpha_beta_candidates) \subseteq Range(mcts_candidates)
          /\ Len(alpha_beta_candidates) <= 5
          /\ IF Len(mcts_candidates) <= 5
             THEN alpha_beta_candidates = mcts_candidates
             ELSE KeepsTop(mcts_candidates, scores2, alpha_beta_candidates, 5)
    /\ lpc = "done"
       => \E x \in get_candidate_moves(lboard) :
             /\ best_move = Cell(x[1], x[2])
             /\ x \in Range(alpha_beta_candidates)

\* C27 witness: a move was returned after stage 1 cut more than 15 candidates
\* of unequal scores down to 15 and stage 2 cut these down to 5
C27_Witness ==
    /\ lpc = "done"
    /\ Len(candidate_moves) > 15
    /\ Len(mcts_candidates) = 15
    /\ Len(alpha_beta_candidates) = 5
    /\ \E i, j \in DOMAIN scores1 :
          /\ scores1[i] > scores1[j]
          /\ i > j
          /\ candidate_moves[i] \in Range(mcts_candidates)
          /\ candidate_moves[j] \notin Range(mcts_candidates)
    /\ \E i, j \in DOMAIN scores2 :
          /\ scores2[i] > scores2[j]
          /\ i > j
          /\ mcts_candidates[i] \in Range(alpha_beta_candidates)
          /\ mcts_candidates[j] \notin Range(alpha_beta_candidates)

\* C28: stage 3 returns the only candidate without searching when exactly one
\* remains; otherwise it returns a candidate whose exact-search value is
\* maximal among the candidates, the first such in the candidate order.
\* (scores3 holds the exact-search values stage 3 computed, none when it did
\* not search.)
C28_Stage3 ==
    lpc = "done"
    => IF Len(alpha_beta_candidates) = 1
       THEN /\ best_move = Cell(alpha_beta_candidates[1][1],
                                alpha_beta_candidates[1][2])
            /\ scores3 = << >>
       ELSE \E i \in DOMAIN alpha_beta_candidates :
               /\ best_move = Cell(alpha_beta_candidates[i][1],
                                   alpha_beta_candidates[i][2])
               /\ \A j \in DOMAIN alpha_beta_candidates :
                     /\ scores3[j] <= scores3[i]
                     /\ j < i => scores3[j] < scores3[i]

\* C28 witness: the best value is reached by two candidates after a candidate
\* of lower value, and the first of the two was returned
C28_Witness ==
    /\ lpc = "done"
    /\ \E i, j \in DOMAIN scores3 :
          /\ 1 < i /\ i < j
          /\ scores3[1] < scores3[i]
          /\ scores3[j] = scores3[i]
          /\ \A k \in DOMAIN scores3 : scores3[k] <= scores3[i]
          /\ best_move = Cell(alpha_beta_candidates[i][1],
                              alpha_beta_candidates[i][2])

\* C30: the time slices stage 1 allots to its quick evaluations, summed over
\* the candidates it evaluates in one decision, never exceed mcts_time.
C30_Stage1WithinBudget ==
    evaluated > 0
    => evaluated * time_per_move.num <= mcts_time * time_per_move.den

(***************************************************************************)
(* Calls of the pruned search on its own.                                  *)
(***************************************************************************)
VARIABLES qboard, qplayer, qrev, qcall
pruneVars == <<qboard, qplayer, qrev, qcall>>

NoPruneCall ==
    [op |-> "none", row |-> 0, col |-> 0, depth |-> 0,
     is_maximizing |-> FALSE, value |-> 0]

\* Search(player) and a board: stones of both players in turn on a corner or
\* on the centre and on consecutive cells next to it, from the first or the
\* second of them on
PruneInit ==
    /\ \E n \in 3 .. MaxPruneSize :
          \E a \in {<<0, 0>>, <<n \div 2, n \div 2>>} :
             LET around == CellsInOrder(NextTo(a, n), n, 0, FALSE)
             IN  \E from \in DOMAIN around, to \in DOMAIN around :
                    /\ from <= 2
                    /\ from < to
                    /\ to - from + 2 <= MaxLayerStones
                    /\ qboard = PlaceStones(n, <<a>> \o SubSeq(around, from,
                                                               to))
    /\ qplayer \in Players
    /\ qrev \in BOOLEAN
    /\ qcall = NoPruneCall

\* self._alpha_beta(board, depth, float("-inf"), float("inf"), is_maximizing,
\* last_move) on a board whose stone on last_move was placed last
AlphaBetaCall ==
    /\ qcall.op = "none"
    /\ \E last_move \in OccupiedCells(qboard), depth \in 0 .. MaxPruneDepth,
          is_maximizing \in BOOLEAN :
          qcall' = [op |-> "alpha_beta",
                    row |-> last_move[1], col |-> last_move[2],
                    depth |-> depth, is_maximizing |-> is_maximizing,
                    value |-> alpha_beta(qboard, depth, -Infinity, Infinity,
                                         is_maximizing, last_move, qplayer,
                                         qrev)]
    /\ UNCHANGED <<qboard, qplayer, qrev>>

PruneNext == AlphaBetaCall

\* the value of minimax without pruning, run to depth over the first 8
\* candidates of every node
RECURSIVE Unpruned(_, _, _, _, _, _)
Unpruned(b, depth, is_maximizing, last_move, player, rev) ==
    IF depth = 0 \/ is_game_over(b, last_move)
    THEN evaluate_board(b, player)
    ELSE LET moves == Range(Take(CandidateList(b, rev), 8))
             mover == IF is_maximizing THEN player ELSE 3 - player
             values == {Unpruned(Place(b, m, mover), depth - 1,
                                 ~is_maximizing, m, player, rev) : m \in moves}
         IN  IF is_maximizing
             THEN CHOOSE v \in values \cup {-Infinity} :
                     \A w \in values : w <= v
             ELSE CHOOSE v \in values \cup {Infinity} :
                     \A w \in values : w >= v

\* C31: called with alpha = -infinity and beta = +infinity, the pruned search
\* returns the value of the unpruned minimax run to the same depth over the
\* same first 8 candidates of every node (its branches being cut only once
\* beta <= alpha at the node).
C31_PruningExact ==
    qcall.op = "alpha_beta"
    => qcall.value
       = Unpruned(qboard, qcall.depth, qcall.is_maximizing,
                  <<qcall.row, qcall.col>>, qplayer, qrev)

\* C31 witness: a search of two plies from a maximizing node in which a branch
\* was cut: the first reply to the second candidate is already no better for
\* the maximizer than the value of the first candidate, and the second
\* candidate has further replies, one of them of another value
C31_Witness ==
    /\ qcall.op = "alpha_beta"
    /\ qcall.depth = 2
    /\ qcall.is_maximizing
    /\ ~is_game_over(qboard, <<qcall.row, qcall.col>>)
    /\ LET moves == Take(CandidateList(qboard, qrev), 8)
       IN  /\ Len(moves) >= 2
           /\ LET first == Place(qboard, moves[1], qplayer)
                  second == Place(qboard, moves[2], qplayer)
                  replies == Take(CandidateList(second, qrev), 8)
                  alpha == Unpruned(first, 1, FALSE, moves[1], qplayer, qrev)
              IN  /\ ~is_game_over(second, moves[2])
                  /\ Len(replies) >= 2
                  /\ evaluate_board(Place(second, replies[1], 3 - qplayer),
                                    qplayer) <= alpha
                  /\ \E k \in 2 .. Len(replies) :
                        evaluate_board(Place(second, replies[k], 3 - qplayer),
                                       qplayer)
                        < evaluate_board(Place(second, replies[1],
                                               3 - qplayer), qplayer)

(***************************************************************************)
(* Search.make_move as a whole: the opening shortcut or the three stages.  *)
(***************************************************************************)
\* _layer1_mcts_coarse_filter when the rollouts give rates
layer1_mcts_coarse_filter(b, player, rev, rates) ==
    LET moves == CandidateList(b, rev)
    IN  IF Len(moves) <= 10 THEN moves
        ELSE Take(SortByScore(moves, QuickScores(b, moves, player, rates, 1)),
                  15)

\* _layer2_alpha_beta_fine_filter
layer2_alpha_beta_fine_filter(b, candidates, player, depth, rev) ==
    IF Len(candidates) <= 5 THEN candidates
    ELSE Take(SortByScore(candidates,
                          AlphaBetaScores(b, candidates, depth, player, rev,
                                          1)),
              5)

\* a mutation of layer3_minimax_decision: nothing is returned when a single
\* candidate is left
layer3_none_for_single(b, candidates, player, depth, rev) ==
    IF Len(candidates) = 1 THEN ReturnsNone
    ELSE IF Len(candidates) = 0 THEN Raises
    ELSE LET best == BestFrom(candidates,
                              MinimaxScores(b, candidates, depth, player, rev,
                                            1),
                              1, candidates[1], -Infinity)
         IN  Cell(best[1], best[2])
\* _layer3_minimax_decision; candidates[0] of an empty list raises IndexError
layer3_minimax_decision(b, candidates, player, depth, rev) ==
    IF Len(candidates) = 1 THEN Cell(candidates[1][1], candidates[1][2])
    ELSE IF Len(candidates) = 0 THEN Raises
    ELSE LET best == BestFrom(candidates,
                              MinimaxScores(b, candidates, depth, player, rev,
                                            1),
                              1, candidates[1], -Infinity)
         IN  Cell(best[1], best[2])

\* Search.make_move(board) after the opening (lines 35-40), by a Search built
\* with player and with depth for both searches
SearchCascade ==
    /\ smove = NoAnswer
    /\ ~is_opening(sboard)
    /\ \E player \in Players, rev \in BOOLEAN, depth \in 1 .. MaxCascadeDepth :
          \E rates \in (IF Len(CandidateList(sboard, rev)) <= 10
                        THEN {<< >>}
                        ELSE RolloutSamples(Len(CandidateList(sboard, rev)))) :
             smove' = layer3_minimax_decision(
                         sboard,
                         layer2_alpha_beta_fine_filter(
                            sboard,
                            layer1_mcts_coarse_filter(sboard, player, rev,
                                                      rates),
                            player, depth, rev),
                         player, depth, rev)
    /\ UNCHANGED sboard

SearchNext == SearchOpening \/ SearchCascade

\* C32: on every board that has an empty cell Search.make_move returns a legal
\* move (on the board, on an empty cell), by the opening shortcut or by the
\* three stages with any of them skipped; it returns neither None nor raises.
C32_MoveIsLegal ==
    (smove # NoAnswer /\ EmptyCells(sboard) # {})
    => /\ smove.kind = "cell"
       /\ Free(sboard, smove.row, smove.col)

\* C32 witness: a move was returned by the three stages, the first of which
\* cut the candidates down
C32_Witness ==
    /\ smove.kind = "cell"
    /\ ~is_opening(sboard)
    /\ Cardinality(get_candidate_moves(sboard)) > 10
    /\ Free(sboard, smove.row, smove.col)

(***************************************************************************)
(* play_game with record_moves: the game record.                           *)
(***************************************************************************)
VARIABLES record_moves, game_record
recordVars == <<record_moves, game_record>>

\* game_record of a game that is not recorded (None in the code)
NoRecord == [moves |-> << >>, board_states |-> << >>]

\* the entries of game_record["moves"]; time_taken and error are left out
Entry(count, player, move, result) ==
    [move_number |-> count, player |-> player, move |-> move,
     result |-> result]

\* game_record after the rest of a turn whose decision call produced ans
\* (the "if record_moves:" blocks of lines 191-203, 249-261, 271-283,
\* 294-306, 312-323, 335-336 and 343-344)
RecordAfterCall(rec, b, player, count, ans) ==
    IF ans.kind = "exception"
    THEN [rec EXCEPT !.moves = Append(@, Entry(count, player, ReturnsNone,
                                               "exception"))]
    ELSE IF ans.kind = "none"
    THEN [rec EXCEPT !.moves = Append(@, Entry(count, player, ReturnsNone,
                                               "invalid_move"))]
    ELSE IF ans.kind = "bad"
    THEN rec
    ELSE IF ~is_valid_move(b, ans.row, ans.col)
    THEN [rec EXCEPT !.moves = Append(@, Entry(count, player, ans,
                                               "invalid_position"))]
    ELSE LET nb == make_move(b, ans.row, ans.col, player).board
             result == IF check_win(nb, ans.row, ans.col) THEN "winning_move"
                       ELSE IF is_board_full(nb) THEN "draw_move"
                       ELSE "valid"
         IN  [moves |-> Append(rec.moves, Entry(count, player, ans, result)),
              board_states |-> Append(rec.board_states, nb)]

\* game_record after the FutureTimeoutError handler (lines 228-241)
RecordTimeout(rec, player, count) ==
    [rec EXCEPT !.moves = Append(@, Entry(count, player, ReturnsNone,
                                          "timeout"))]

\* game_record["total_moves"] (lines 351-357)
total_moves(rec) ==
    Cardinality({i \in DOMAIN rec.moves :
        rec.moves[i].result \in {"valid", "winning_move", "draw_move"}})

\* play_game(agent1, agent2, BoardSize, record_moves=True) up to its loop
RecordInit ==
    /\ GameInit
    /\ record_moves = TRUE
    /\ game_record = [moves |-> << >>, board_states |-> <<board>>]

\* the steps of play_game with their "if record_moves:" blocks
RecordedBeginTurn == BeginTurn /\ UNCHANGED recordVars
RecordedAgentWrite == AgentWrite /\ UNCHANGED recordVars
RecordedResume ==
    /\ Resume
    /\ game_record' = IF record_moves
                      THEN RecordAfterCall(game_record, board, current_player,
                                           move_count, future'.answer)
                      ELSE game_record
    /\ UNCHANGED record_moves
RecordedDeadline ==
    /\ Deadline
    /\ game_record' = IF record_moves /\ ~is_human[current_player]
                      THEN RecordTimeout(game_record, current_player,
                                         move_count)
                      ELSE game_record
    /\ UNCHANGED record_moves
RecordedLateReturn == LateReturn /\ UNCHANGED recordVars
RecordedExitWith == ExitWith /\ UNCHANGED recordVars

RecordNext ==
    \/ RecordedBeginTurn
    \/ RecordedAgentWrite
    \/ RecordedResume
    \/ RecordedDeadline
    \/ RecordedLateReturn
    \/ RecordedExitWith

(***************************************************************************)
(* The claims about the game record.  The tags of the code are valid,      *)
(* winning_move (winning), draw_move (draw), invalid_position, timeout,    *)
(* exception and invalid_move (no move).                                   *)
(***************************************************************************)
Tags ==
    {"valid", "winning_move", "draw_move", "invalid_position", "timeout",
     "exception", "invalid_move"}

\* the entry e tells what happened on its turn, which is the last one so far
TagFits(e) ==
    /\ e.result \in {"valid", "winning_move", "draw_move"}
       => /\ e.move.kind = "cell"
          /\ InBounds(board, e.move.row, e.move.col)
          /\ board[e.move.row][e.move.col] = e.player
          /\ e.result = "winning_move"
             <=> FiveThrough(board, e.move.row, e.move.col)
          /\ e.result = "draw_move"
             <=> (~FiveThrough(board, e.move.row, e.move.col)
                  /\ EmptyCells(board) = {})
    /\ e.result = "invalid_position"
       => /\ e.move.kind = "cell"
          /\ ~Free(board, e.move.row, e.move.col)
    /\ e.result = "invalid_move" => future.answer = ReturnsNone
    /\ e.result = "exception" => future.answer = Raises
    /\ e.result = "timeout" => overdue

\* the winner agrees with the tag of the entry e
WinnerFits(e) ==
    /\ e.result # "valid"
    /\ e.result = "winning_move" => winner = e.player
    /\ e.result = "draw_move" => winner = 0
    /\ e.result \in {"invalid_position", "timeout", "exception",
                     "invalid_move"}
       => winner = 3 - e.player

\* C33: in recording mode every turn has its trace entry, which carries the
\* tag of what happened on that turn; only the last entry can carry a tag
\* other than valid, and the winner agrees with it: the mover for winning,
\* 0 for draw, the opponent of the mover for the four forfeit tags.
C33_TraceTags ==
    record_moves
    => LET m == game_record.moves IN
       /\ Len(m) = IF pc = "calling" THEN move_count - 1 ELSE move_count
       /\ \A i \in DOMAIN m :
             /\ m[i].move_number = i
             /\ m[i].result \in Tags
             /\ i < Len(m) => m[i].result = "valid"
       /\ (Len(m) > 0 /\ pc # "calling") => TagFits(m[Len(m)])
       /\ (Len(m) > 0 /\ pc \in {"exit_with", "returned"})
          => WinnerFits(m[Len(m)])

\* the counts of the record of a game that has ended
RecordCounts ==
    (record_moves /\ pc \in {"returned", "raised"})
    => /\ Len(game_record.moves) = move_count
       /\ Len(game_record.board_states) = total_moves(game_record) + 1
       /\ game_record.board_states[Len(game_record.board_states)] = board
       /\ total_moves(game_record) = StoneCount(board)

\* C34: recording never steers the game: every step of the recorded game is
\* a step of play_game on the boards, players and winner alone; and the
\* record of a game has one entry per turn taken, one board snapshot per
\* applied move plus the initial board, and total_moves equal to the number
\* of stones on the final board.
C34_RecordingIsPassive == [][GameNext]_gameVars /\ []RecordCounts

(***************************************************************************)
(* The specifications.                                                     *)
(***************************************************************************)
vars ==
    <<gameVars, boardVars, matchVars, searchVars, evalVars, layerVars, pruneVars,
      recordVars>>

\* the game driver is not run
GameIdle ==
    /\ board = create_board(BoardSize)
    /\ current_player = 1
    /\ game_over = FALSE
    /\ winner = None
    /\ move_count = 0
    /\ pc = "loop"
    /\ is_human = [p \in Players |-> FALSE]
    /\ future = IdleFuture
    /\ overdue = FALSE
    /\ handed = NoBoard
    /\ writes = 0
    /\ skips = 0

\* the primitives are not called on their own
BoardIdle ==
    /\ pboard = create_board(BoardSize)
    /\ pline = {}
    /\ pcall = NoCall

\* no match is run
MatchIdle ==
    /\ games = 0
    /\ max_workers = 0
    /\ sources = <<"first", "first">>
    /\ mpc = "start"
    /\ fut = << >>
    /\ yielded = {}
    /\ order = << >>
    /\ results = NewResults(0)

\* the search agent is not called
SearchIdle ==
    /\ sboard = create_board(1)
    /\ smove = NoAnswer

\* the search functions are not called
EvalIdle ==
    /\ eboard = create_board(1)
    /\ eplayer = 1
    /\ ecall = NoEvalCall

\* make_move is not called after the opening
LayerIdle ==
    /\ lboard = create_board(1)
    /\ lplayer = 1
    /\ lrev = FALSE
    /\ alpha_beta_depth = 1
    /\ minimax_depth = 1
    /\ lpc = "idle"
    /\ candidate_moves = << >>
    /\ scores1 = << >>
    /\ evaluated = 0
    /\ time_per_move = NoRate
    /\ mcts_candidates = << >>
    /\ scores2 = << >>
    /\ alpha_beta_candidates = << >>
    /\ scores3 = << >>
    /\ best_move = NoAnswer

\* the pruned search is not called on its own
PruneIdle ==
    /\ qboard = create_board(1)
    /\ qplayer = 1
    /\ qrev = FALSE
    /\ qcall = NoPruneCall

\* the game is not recorded
RecordIdle ==
    /\ record_moves = FALSE
    /\ game_record = NoRecord

\* one game of play_game
Init == GameInit /\ BoardIdle /\ MatchIdle /\ SearchIdle /\ EvalIdle /\ LayerIdle /\ PruneIdle
    /\ RecordIdle
Next ==
    \/ BeginTurn /\ UNCHANGED <<boardVars, matchVars, searchVars, evalVars, layerVars, pruneVars, recordVars>>
    \/ AgentWrite /\ UNCHANGED <<boardVars, matchVars, searchVars, evalVars, layerVars, pruneVars, recordVars>>
    \/ Resume /\ UNCHANGED <<boardVars, matchVars, searchVars, evalVars, layerVars, pruneVars, recordVars>>
    \/ Deadline /\ UNCHANGED <<boardVars, matchVars, searchVars, evalVars, layerVars, pruneVars, recordVars>>
    \/ LateReturn /\ UNCHANGED <<boardVars, matchVars, searchVars, evalVars, layerVars, pruneVars, recordVars>>
    \/ ExitWith /\ UNCHANGED <<boardVars, matchVars, searchVars, evalVars, layerVars, pruneVars, recordVars>>
Spec == Init /\ [][Next]_vars

\* the board primitives on their own
InitBoard == BoardInit /\ GameIdle /\ MatchIdle /\ SearchIdle /\ EvalIdle /\ LayerIdle /\ PruneIdle
    /\ RecordIdle
NextBoard ==
    \/ MakeMoveCall /\ UNCHANGED <<gameVars, matchVars, searchVars, evalVars, layerVars, pruneVars, recordVars>>
    \/ CheckWinCall /\ UNCHANGED <<gameVars, matchVars, searchVars, evalVars, layerVars, pruneVars, recordVars>>
SpecBoard == InitBoard /\ [][NextBoard]_vars

\* one match of run_match
InitMatch == MatchInit /\ GameIdle /\ BoardIdle /\ SearchIdle /\ EvalIdle /\ LayerIdle /\ PruneIdle
    /\ RecordIdle
NextMatch ==
    \/ StartMatch /\ UNCHANGED <<gameVars, boardVars, searchVars, evalVars, layerVars, pruneVars, recordVars>>
    \/ StartGame /\ UNCHANGED <<gameVars, boardVars, searchVars, evalVars, layerVars, pruneVars, recordVars>>
    \/ FinishGame /\ UNCHANGED <<gameVars, boardVars, searchVars, evalVars, layerVars, pruneVars, recordVars>>
    \/ CollectResult /\ UNCHANGED <<gameVars, boardVars, searchVars, evalVars, layerVars, pruneVars, recordVars>>
    \/ FinishMatch /\ UNCHANGED <<gameVars, boardVars, searchVars, evalVars, layerVars, pruneVars, recordVars>>
SpecMatch == InitMatch /\ [][NextMatch]_vars

\* one call of Search.make_move
InitSearch == SearchInit /\ GameIdle /\ BoardIdle /\ MatchIdle /\ EvalIdle /\ LayerIdle /\ PruneIdle
    /\ RecordIdle
NextSearch ==
    \/ SearchOpening /\ UNCHANGED <<gameVars, boardVars, matchVars, evalVars, layerVars, pruneVars, recordVars>>
    \/ SearchCascade /\ UNCHANGED <<gameVars, boardVars, matchVars, evalVars, layerVars, pruneVars, recordVars>>
SpecSearch == InitSearch /\ [][NextSearch]_vars

\* one call of a function of the search
InitEval ==
    EvalInit /\ GameIdle /\ BoardIdle /\ MatchIdle /\ SearchIdle /\ LayerIdle
    /\ PruneIdle /\ RecordIdle
NextEval ==
    \/ CandidatesCall /\ UNCHANGED <<gameVars, boardVars, matchVars, searchVars, layerVars, pruneVars, recordVars>>
    \/ EvaluateLineCall /\ UNCHANGED <<gameVars, boardVars, matchVars, searchVars, layerVars, pruneVars, recordVars>>
    \/ EvaluateBoardCall /\ UNCHANGED <<gameVars, boardVars, matchVars, searchVars, layerVars, pruneVars, recordVars>>
    \/ SearchNodeCall /\ UNCHANGED <<gameVars, boardVars, matchVars, searchVars, layerVars, pruneVars, recordVars>>
    \/ QuickEvaluateCall /\ UNCHANGED <<gameVars, boardVars, matchVars, searchVars, layerVars, pruneVars, recordVars>>
SpecEval == InitEval /\ [][NextEval]_vars

\* one call of Search.make_move after the opening
InitLayers ==
    LayerInit /\ GameIdle /\ BoardIdle /\ MatchIdle /\ SearchIdle /\ EvalIdle
    /\ PruneIdle /\ RecordIdle
NextLayers ==
    \/ Layer1 /\ UNCHANGED <<gameVars, boardVars, matchVars, searchVars, evalVars, pruneVars, recordVars>>
    \/ Layer2 /\ UNCHANGED <<gameVars, boardVars, matchVars, searchVars, evalVars, pruneVars, recordVars>>
    \/ Layer3 /\ UNCHANGED <<gameVars, boardVars, matchVars, searchVars, evalVars, pruneVars, recordVars>>
SpecLayers == InitLayers /\ [][NextLayers]_vars

\* one call of Search._alpha_beta
InitPrune ==
    PruneInit /\ GameIdle /\ BoardIdle /\ MatchIdle /\ SearchIdle /\ EvalIdle
    /\ LayerIdle /\ RecordIdle
NextPrune ==
    \/ AlphaBetaCall /\ UNCHANGED <<gameVars, boardVars, matchVars, searchVars, evalVars, layerVars, recordVars>>
SpecPrune == InitPrune /\ [][NextPrune]_vars

\* one game of play_game with record_moves=True
InitRecord ==
    RecordInit /\ BoardIdle /\ MatchIdle /\ SearchIdle /\ EvalIdle /\ LayerIdle
    /\ PruneIdle
NextRecord ==
    \/ RecordedBeginTurn /\ UNCHANGED <<boardVars, matchVars, searchVars, evalVars, layerVars, pruneVars>>
    \/ RecordedAgentWrite /\ UNCHANGED <<boardVars, matchVars, searchVars, evalVars, layerVars, pruneVars>>
    \/ RecordedResume /\ UNCHANGED <<boardVars, matchVars, searchVars, evalVars, layerVars, pruneVars>>
    \/ RecordedDeadline /\ UNCHANGED <<boardVars, matchVars, searchVars, evalVars, layerVars, pruneVars>>
    \/ RecordedLateReturn /\ UNCHANGED <<boardVars, matchVars, searchVars, evalVars, layerVars, pruneVars>>
    \/ RecordedExitWith /\ UNCHANGED <<boardVars, matchVars, searchVars, evalVars, layerVars, pruneVars>>
SpecRecord == InitRecord /\ [][NextRecord]_vars

====
